---- MODULE Spec2Model ----
(***************************************************************************)
(* Model of tkn-shell's command engine: the REPL executor loop             *)
(* (internal/repl), the session store (internal/state) and the command     *)
(* dispatcher ExecuteCommand (internal/engine).                            *)
(*                                                                         *)
(* Strings are sequences of symbols.  A symbol is a short TLA+ string that *)
(* stands for a run of characters the code never splits: "a", "x", "=",    *)
(* "--", "image", and "$(params." for the nine characters that open a      *)
(* parameter reference.  The empty string is << >>.                        *)
(*                                                                         *)
(* Go pointers are object identities: *v1.Pipeline and *v1.Task values are *)
(* indices into the object stores pobj and tobj of the session record; Nil *)
(* is the nil pointer.  Objects no pointer reaches are dropped from the    *)
(* stores (garbage collection); their identities are reused.               *)
(***************************************************************************)
EXTENDS Integers, Sequences, FiniteSets, TLC

(* ---------------------------------------------------------------------- *)
(* Bounds of the model                                                    *)
(* ---------------------------------------------------------------------- *)
\* Longest undo stack explored: a mutating command is only issued while
\* fewer than MaxUndo reversal actions are pending.
MaxUndo == 2

(* ---------------------------------------------------------------------- *)
(* Strings                                                                *)
(* ---------------------------------------------------------------------- *)
Empty == << >>

\* strings.HasPrefix
HasPrefix(s, p) == Len(s) >= Len(p) /\ SubSeq(s, 1, Len(p)) = p
\* strings.HasSuffix
HasSuffix(s, p) == Len(s) >= Len(p) /\ SubSeq(s, Len(s) - Len(p) + 1, Len(s)) = p
\* strings.TrimPrefix
TrimPrefix(s, p) == IF HasPrefix(s, p) THEN SubSeq(s, Len(p) + 1, Len(s)) ELSE s
\* strings.TrimSuffix
TrimSuffix(s, p) == IF HasSuffix(s, p) THEN SubSeq(s, 1, Len(s) - Len(p)) ELSE s
\* strings.Contains
Contains(s, p) == \E i \in 1..(Len(s) - Len(p) + 1) : SubSeq(s, i, i + Len(p) - 1) = p

\* strings.ReplaceAll for a non-empty old: non-overlapping occurrences,
\* scanned left to right; the inserted text is not scanned again.
RECURSIVE ReplaceAll(_, _, _)
ReplaceAll(s, old, new) ==
    IF Len(s) < Len(old) THEN s
    ELSE IF SubSeq(s, 1, Len(old)) = old
         THEN new \o ReplaceAll(SubSeq(s, Len(old) + 1, Len(s)), old, new)
         ELSE <<Head(s)>> \o ReplaceAll(Tail(s), old, new)

\* A reference pattern without its closing parenthesis
ParamRefOpen(name) == <<"$(params.">> \o name

\* fmt.Sprintf("$(params.%s)", name)
ParamRef(name) == <<"$(params.">> \o name \o <<")">>

(* ---------------------------------------------------------------------- *)
(* Session store (internal/state/state.go)                                *)
(* ---------------------------------------------------------------------- *)
Nil == 0

\* The empty Go map; maps are functions from the keys present.
EmptyMap == [x \in {} |-> Nil]
MapPut(m, k, v) == [x \in (DOMAIN m) \cup {k} |-> IF x = k THEN v ELSE m[x]]
MapDelete(m, k) == [x \in (DOMAIN m) \ {k} |-> m[x]]
Range(f) == {f[x] : x \in DOMAIN f}

\* state.NewSession: empty maps, nil current pointers, empty PastActions.
NewSession ==
    [ pipelines       |-> EmptyMap,
      tasks           |-> EmptyMap,
      currentPipeline |-> Nil,
      currentTask     |-> Nil,
      PastActions     |-> << >>,
      pobj            |-> EmptyMap,
      tobj            |-> EmptyMap ]

\* A reset that forgets the two current pointers
ResetMapsOnly(s) ==
    [s EXCEPT !.pipelines = EmptyMap, !.tasks = EmptyMap, !.PastActions = << >>]

\* Session.Reset
Reset(s) ==
    [s EXCEPT !.pipelines = EmptyMap, !.tasks = EmptyMap,
              !.currentPipeline = Nil, !.currentTask = Nil,
              !.PastActions = << >>]

GetPipelines(s) == s.pipelines
GetTasks(s) == s.tasks
GetCurrentPipeline(s) == s.currentPipeline
GetCurrentTask(s) == s.currentTask
SetCurrentPipeline(s, p) == [s EXCEPT !.currentPipeline = p]
SetCurrentTask(s, t) == [s EXCEPT !.currentTask = t]
AddPipeline(s, name, p) == [s EXCEPT !.pipelines = MapPut(@, name, p)]
DeletePipeline(s, name) == [s EXCEPT !.pipelines = MapDelete(@, name)]
AddTask(s, name, t) == [s EXCEPT !.tasks = MapPut(@, name, t)]
DeleteTask(s, name) == [s EXCEPT !.tasks = MapDelete(@, name)]

\* Session.PushRevertAction
PushRevertAction(s, revert) == [s EXCEPT !.PastActions = Append(@, revert)]

\* A pop that returns the last action and leaves it on the stack
PopRevertActionPeek(s) ==
    IF Len(s.PastActions) = 0
    THEN [action |-> Nil, s |-> s]
    ELSE [action |-> s.PastActions[Len(s.PastActions)], s |-> s]

\* Session.PopRevertAction: the popped action (Nil when the stack is empty)
\* and the session with the action removed.
PopRevertAction(s) ==
    IF Len(s.PastActions) = 0
    THEN [action |-> Nil, s |-> s]
    ELSE [action |-> s.PastActions[Len(s.PastActions)],
          s |-> [s EXCEPT !.PastActions = SubSeq(@, 1, Len(@) - 1)]]

\* Pointers held by the pending reversal closures.
ClosurePipelinePtrs(s) ==
    {s.PastActions[i].prevCurrentPipeline :
        i \in {j \in 1..Len(s.PastActions) : s.PastActions[j].kind = "pipeline create"}}
ClosureTaskPtrs(s) ==
    {s.PastActions[i].prevCurrentTask :
        i \in {j \in 1..Len(s.PastActions) :
                 s.PastActions[j].kind \in {"pipeline create", "task create"}}}

LivePipelines(s) ==
    (Range(s.pipelines) \cup {s.currentPipeline} \cup ClosurePipelinePtrs(s)) \ {Nil}
LiveTasks(s) ==
    (Range(s.tasks) \cup {s.currentTask} \cup ClosureTaskPtrs(s)) \ {Nil}

\* Garbage collection: objects no pointer reaches leave the stores.
Collect(s) ==
    [s EXCEPT !.pobj = [p \in LivePipelines(s) |-> s.pobj[p]],
              !.tobj = [t \in LiveTasks(s) |-> s.tobj[t]]]

\* Allocation of a new object (&tektonv1.Pipeline{...}, &tektonv1.Task{...}):
\* the least identity no live object has.
FreshId(store) ==
    CHOOSE p \in 1..(Cardinality(DOMAIN store) + 1) :
        /\ p \notin DOMAIN store
        /\ \A q \in 1..(Cardinality(DOMAIN store) + 1) : q \notin DOMAIN store => p <= q

(* ---------------------------------------------------------------------- *)
(* Entities (tektonv1.Pipeline, tektonv1.Task) as the engine builds them  *)
(* ---------------------------------------------------------------------- *)
\* Go's nil slice and empty slice are both the empty sequence: the engine
\* only takes len, ranges over and appends to these slices.
NewPipelineObj(name) == [Name |-> name, Tasks |-> << >>]
NewTaskObj(name) == [Name |-> name, Params |-> << >>, Steps |-> << >>]

\* selection.In / selection.NotIn
operatorIn == "in"
operatorNotIn == "notin"

\* Results and errors of ExecuteCommand.
NoErr == "nil"
NilResult == [type |-> "nil"]
PipelineResult(p) == [type |-> "pipeline", ptr |-> p]
TaskResult(t) == [type |-> "task", ptr |-> t]
StringsResult(l) == [type |-> "strings", val |-> l]
BytesResult(b) == [type |-> "bytes", val |-> b]
\* calls: the collaborators (validator, exporter, applier, runner) and the
\* reversal closures invoked while the command ran, in order.
Ret(s, result, err) == [s |-> s, result |-> result, err |-> err, calls |-> << >>]
RetCalls(s, result, err, calls) ==
    [s |-> s, result |-> result, err |-> err, calls |-> calls]
Fail(s, err) == Ret(s, NilResult, err)

(* ---------------------------------------------------------------------- *)
(* engine: interpolateParams, convertToTektonWhenExpressions              *)
(* ---------------------------------------------------------------------- *)
\* interpolateParams: one ReplaceAll per param, in the order of the list.
\* Every ParamSpec the engine stores has a Default, so the p.Default != nil
\* test always passes.
RECURSIVE interpolateParams(_, _)
interpolateParams(str, params) ==
    IF params = << >> THEN str
    ELSE interpolateParams(
            ReplaceAll(str, ParamRef(Head(params).Name), Head(params).Default),
            Tail(params))

\* A conversion that stops at the first condition whose operator it does
\* not know and drops the conditions after it
RECURSIVE convertConditionsStop(_)
convertConditionsStop(conds) ==
    IF conds = << >> THEN << >>
    ELSE LET cond == Head(conds)
         IN CASE cond.Operator = <<"==">> ->
                    <<[Input |-> cond.Left, Operator |-> operatorIn,
                       Values |-> <<cond.Right>>]>> \o convertConditionsStop(Tail(conds))
              [] cond.Operator = <<"!=">> ->
                    <<[Input |-> cond.Left, Operator |-> operatorNotIn,
                       Values |-> <<cond.Right>>]>> \o convertConditionsStop(Tail(conds))
              [] OTHER -> << >>

\* convertToTektonWhenExpressions.  A when clause is its sequence of
\* conditions [Left, Operator, Right]; the nil clause is << >>, which the
\* code treats like a clause without conditions.
RECURSIVE convertConditions(_)
convertConditions(conds) ==
    IF conds = << >> THEN << >>
    ELSE LET cond == Head(conds)
             rest == convertConditions(Tail(conds))
         IN CASE cond.Operator = <<"==">> ->
                    <<[Input |-> cond.Left, Operator |-> operatorIn,
                       Values |-> <<cond.Right>>]>> \o rest
              [] cond.Operator = <<"!=">> ->
                    <<[Input |-> cond.Left, Operator |-> operatorNotIn,
                       Values |-> <<cond.Right>>]>> \o rest
              [] OTHER -> rest

\* A conversion that maps both operators to 'in'
convertAllToIn(whenClause) ==
    [i \in 1..Len(convertConditions(whenClause)) |->
        [convertConditions(whenClause)[i] EXCEPT !.Operator = operatorIn]]

convertToTektonWhenExpressions(whenClause) ==
    IF whenClause = << >> THEN << >> ELSE convertConditions(whenClause)

(* ---------------------------------------------------------------------- *)
(* engine: reversal closures.  A closure is the record of the variables   *)
(* the Go closure captured; Revert* is the closure's body.                *)
(* ---------------------------------------------------------------------- *)
\* A pipeline-create reversal that deletes the pipeline and leaves the
\* current pointers alone
RevertPipelineCreateKeepPointers(s, c) == DeletePipeline(s, c.name)

\* A pipeline-create reversal that restores the captured pointers whether
\* or not the deleted pipeline is the current one
RevertPipelineCreateAlways(s, c) ==
    SetCurrentTask(SetCurrentPipeline(DeletePipeline(s, c.name), c.prevCurrentPipeline),
                   c.prevCurrentTask)

\* func(s) pushed by pipeline create
RevertPipelineCreate(s, c) ==
    LET s1 == DeletePipeline(s, c.name)
    IN IF GetCurrentPipeline(s1) # Nil /\ s1.pobj[GetCurrentPipeline(s1)].Name = c.name
       THEN SetCurrentTask(SetCurrentPipeline(s1, c.prevCurrentPipeline),
                           c.prevCurrentTask)
       ELSE s1

\* A task-create reversal that deletes the task and leaves the current task
\* pointer alone
RevertTaskCreateKeepPointer(s, c) ==
    LET s1 == DeleteTask(s, c.name)
    IN IF c.wasAddedToPipeline /\ c.pipelineName # Empty
          /\ c.pipelineName \in DOMAIN GetPipelines(s1)
       THEN [s1 EXCEPT !.pobj[GetPipelines(s1)[c.pipelineName]].Tasks =
                            c.originalPipelineTasks]
       ELSE s1

\* func(s) pushed by task create
RevertTaskCreate(s, c) ==
    LET s1 == DeleteTask(s, c.name)
        s2 == IF GetCurrentTask(s1) # Nil /\ s1.tobj[GetCurrentTask(s1)].Name = c.name
              THEN SetCurrentTask(s1, c.prevCurrentTask)
              ELSE s1
    IN IF c.wasAddedToPipeline /\ c.pipelineName # Empty
          /\ c.pipelineName \in DOMAIN GetPipelines(s2)
       THEN [s2 EXCEPT !.pobj[GetPipelines(s2)[c.pipelineName]].Tasks =
                            c.originalPipelineTasks]
       ELSE s2

\* t.Spec.Params[:i] ++ t.Spec.Params[i+1:]   (i is a Go index, from 0)
RemoveAt(l, i) == SubSeq(l, 1, i) \o SubSeq(l, i + 2, Len(l))

\* func(s) pushed by param
RevertParam(s, c) ==
    IF c.taskName \notin DOMAIN GetTasks(s) THEN s
    ELSE LET t == GetTasks(s)[c.taskName]
             params == s.tobj[t].Params
             there == c.originalParamIndex < Len(params)
                      /\ params[c.originalParamIndex + 1].Name = c.paramName
         IN IF c.paramExisted
            THEN IF there
                 THEN [s EXCEPT !.tobj[t].Params[c.originalParamIndex + 1].Default =
                                     c.originalParamSpec.Default]
                 ELSE s
            ELSE IF there
                 THEN [s EXCEPT !.tobj[t].Params = RemoveAt(@, c.originalParamIndex)]
                 ELSE s

\* func(s) pushed by step add
RevertStepAdd(s, c) ==
    IF c.taskNameForUndo \notin DOMAIN GetTasks(s) THEN s
    ELSE LET task == GetTasks(s)[c.taskNameForUndo]
         IN IF Len(s.tobj[task].Steps) > c.originalStepsLen
            THEN [s EXCEPT !.tobj[task].Steps = SubSeq(@, 1, Len(@) - 1)]
            ELSE s

\* revertFunc(concreteSession)
Invoke(c, s) ==
    CASE c.kind = "pipeline create" -> RevertPipelineCreate(s, c)
      [] c.kind = "task create" -> RevertTaskCreate(s, c)
      [] c.kind = "param" -> RevertParam(s, c)
      [] c.kind = "step add" -> RevertStepAdd(s, c)

(* ---------------------------------------------------------------------- *)
(* engine.ExecuteCommand, one operator per case of its switch.            *)
(* Kind and Action are only compared whole and are TLA+ strings.          *)
(* ---------------------------------------------------------------------- *)
\* pipeline create without the lookup of the name: an existing pipeline is
\* replaced
PipelineCreateOverwrite(baseCmd, session) ==
    IF Len(baseCmd.Args) # 1 THEN Fail(session, "expects 1 argument")
    ELSE LET name == baseCmd.Args[1]
             newPipeline == FreshId(session.pobj)
             s0 == [session EXCEPT !.pobj =
                       MapPut(@, newPipeline, NewPipelineObj(name))]
             s1 == AddPipeline(s0, name, newPipeline)
             s2 == SetCurrentPipeline(s1, newPipeline)
             s3 == SetCurrentTask(s2, Nil)
             s4 == PushRevertAction(s3,
                      [kind |-> "pipeline create", name |-> name,
                       prevCurrentPipeline |-> GetCurrentPipeline(s1),
                       prevCurrentTask |-> GetCurrentTask(s1)])
         IN Ret(s4, PipelineResult(newPipeline), NoErr)

\* case "pipeline" / "create"
PipelineCreate(baseCmd, session) ==
    IF Len(baseCmd.Args) # 1 THEN Fail(session, "expects 1 argument")
    ELSE LET name == baseCmd.Args[1]
         IN IF name \in DOMAIN GetPipelines(session)
            THEN Fail(session, "already exists")
            ELSE LET newPipeline == FreshId(session.pobj)
                     s0 == [session EXCEPT !.pobj =
                               MapPut(@, newPipeline, NewPipelineObj(name))]
                     s1 == AddPipeline(s0, name, newPipeline)
                     prevCurrentPipeline == GetCurrentPipeline(s1)
                     prevCurrentTask == GetCurrentTask(s1)
                     s2 == SetCurrentPipeline(s1, newPipeline)
                     s3 == SetCurrentTask(s2, Nil)
                     s4 == PushRevertAction(s3,
                              [kind |-> "pipeline create", name |-> name,
                               prevCurrentPipeline |-> prevCurrentPipeline,
                               prevCurrentTask |-> prevCurrentTask])
                 IN Ret(s4, PipelineResult(newPipeline), NoErr)

\* pipeline select that keeps the current task
PipelineSelectKeepTask(baseCmd, session) ==
    IF Len(baseCmd.Args) # 1 THEN Fail(session, "expects 1 argument")
    ELSE LET name == baseCmd.Args[1]
         IN IF name \notin DOMAIN GetPipelines(session)
            THEN Fail(session, "not found")
            ELSE Ret(SetCurrentPipeline(session, GetPipelines(session)[name]),
                     PipelineResult(GetPipelines(session)[name]), NoErr)

\* pipeline select that drops the current task before it looks the name up
PipelineSelectEarlyClear(baseCmd, session) ==
    IF Len(baseCmd.Args) # 1 THEN Fail(session, "expects 1 argument")
    ELSE LET name == baseCmd.Args[1]
             s1 == SetCurrentTask(session, Nil)
         IN IF name \notin DOMAIN GetPipelines(s1)
            THEN Fail(s1, "not found")
            ELSE Ret(SetCurrentPipeline(s1, GetPipelines(s1)[name]),
                     PipelineResult(GetPipelines(s1)[name]), NoErr)

\* case "pipeline" / "select"
PipelineSelect(baseCmd, session) ==
    IF Len(baseCmd.Args) # 1 THEN Fail(session, "expects 1 argument")
    ELSE LET name == baseCmd.Args[1]
         IN IF name \notin DOMAIN GetPipelines(session)
            THEN Fail(session, "not found")
            ELSE LET p == GetPipelines(session)[name]
                     s1 == SetCurrentPipeline(session, p)
                     s2 == SetCurrentTask(s1, Nil)
                 IN Ret(s2, PipelineResult(p), NoErr)

\* The first edge of tasks with pt.Name == name or pt.TaskRef.Name == name
\* (a Go index, from 0), or -1.
FindPipelineTask(tasks, name) ==
    LET hits == {i \in 1..Len(tasks) :
                    tasks[i].Name = name \/ tasks[i].TaskRef = name}
    IN IF hits = {} THEN -1
       ELSE (CHOOSE i \in hits : \A j \in hits : i <= j) - 1

\* case "task" / "create"
TaskCreate(baseCmd, session, whenClause) ==
    IF Len(baseCmd.Args) # 1 THEN Fail(session, "expects 1 argument")
    ELSE LET name == baseCmd.Args[1]
         IN IF name \in DOMAIN GetTasks(session)
            THEN Fail(session, "already exists")
            ELSE LET newTask == FreshId(session.tobj)
                     s0 == [session EXCEPT !.tobj = MapPut(@, newTask, NewTaskObj(name))]
                     s1 == AddTask(s0, name, newTask)
                     prevCurrentTask == GetCurrentTask(s1)
                     s2 == SetCurrentTask(s1, newTask)
                     cp == GetCurrentPipeline(s2)
                     inPipeline == cp # Nil
                     pipelineName == IF inPipeline THEN s2.pobj[cp].Name ELSE Empty
                     originalPipelineTasks ==
                         IF inPipeline THEN s2.pobj[cp].Tasks ELSE << >>
                     ptIndex == IF inPipeline
                                THEN FindPipelineTask(s2.pobj[cp].Tasks, name)
                                ELSE -1
                     tektonWhens == convertToTektonWhenExpressions(whenClause)
                     pipelineTask == [Name |-> name, TaskRef |-> name,
                                      When |-> tektonWhens]
                     s3 == IF ~inPipeline THEN s2
                           ELSE IF ptIndex >= 0
                           THEN [s2 EXCEPT !.pobj[cp].Tasks[ptIndex + 1].When = tektonWhens]
                           ELSE [s2 EXCEPT !.pobj[cp].Tasks = Append(@, pipelineTask)]
                     s4 == PushRevertAction(s3,
                              [kind |-> "task create", name |-> name,
                               prevCurrentTask |-> prevCurrentTask,
                               wasAddedToPipeline |-> inPipeline,
                               pipelineName |-> pipelineName,
                               originalPipelineTasks |-> originalPipelineTasks])
                 IN Ret(s4, TaskResult(newTask), NoErr)

\* task select that, like pipeline select, clears the other pointer
TaskSelectClearPipeline(baseCmd, session) ==
    IF Len(baseCmd.Args) # 1 THEN Fail(session, "expects 1 argument")
    ELSE LET name == baseCmd.Args[1]
         IN IF name \notin DOMAIN GetTasks(session)
            THEN Fail(session, "not found")
            ELSE Ret(SetCurrentPipeline(SetCurrentTask(session, GetTasks(session)[name]), Nil),
                     TaskResult(GetTasks(session)[name]), NoErr)

\* case "task" / "select"
TaskSelect(baseCmd, session) ==
    IF Len(baseCmd.Args) # 1 THEN Fail(session, "expects 1 argument")
    ELSE LET name == baseCmd.Args[1]
         IN IF name \notin DOMAIN GetTasks(session)
            THEN Fail(session, "not found")
            ELSE LET t == GetTasks(session)[name]
                 IN Ret(SetCurrentTask(session, t), TaskResult(t), NoErr)

\* The quote characters as symbols: double quote, back quote, apostrophe.
DQuote == <<"dquote">>
BQuote == <<"bquote">>
SQuote == <<"squote">>

\* s[1 : len(s)-1] when s starts and ends with quote character q
Quoted(s, q) == HasPrefix(s, q) /\ HasSuffix(s, q)
StripEnds(s) == IF Len(s) >= 2 THEN SubSeq(s, 2, Len(s) - 1) ELSE s

\* A search that never finds the param
FindParamNever(params, paramName) == -1

\* The Go index of the first param of params named paramName, or -1.
FindParam(params, paramName) ==
    LET hits == {i \in 1..Len(params) : params[i].Name = paramName}
    IN IF hits = {} THEN -1
       ELSE (CHOOSE i \in hits : \A j \in hits : i <= j) - 1

\* A param that treats the steps as live templates: it interpolates the
\* steps of the task again with the new param list
ParamLive(baseCmd, session) ==
    IF baseCmd.Action # "" THEN Fail(session, "does not take an action")
    ELSE IF GetCurrentTask(session) = Nil THEN Fail(session, "no current task")
    ELSE IF Len(baseCmd.Args) # 2 THEN Fail(session, "expects 2 arguments")
    ELSE LET paramName == TrimSuffix(baseCmd.Args[1], <<"=">>)
             raw == baseCmd.Args[2]
             paramValue == IF Quoted(raw, DQuote) \/ Quoted(raw, BQuote)
                           THEN StripEnds(raw) ELSE raw
             ct == GetCurrentTask(session)
             idx == FindParam(session.tobj[ct].Params, paramName)
             paramExisted == idx >= 0
             s1 == IF paramExisted
                   THEN [session EXCEPT !.tobj[ct].Params[idx + 1].Default = paramValue]
                   ELSE [session EXCEPT !.tobj[ct].Params =
                            Append(@, [Name |-> paramName, Default |-> paramValue])]
             s2 == [s1 EXCEPT !.tobj[ct].Steps =
                      [i \in 1..Len(@) |->
                          [@[i] EXCEPT
                              !.Image = interpolateParams(@, s1.tobj[ct].Params),
                              !.Script = interpolateParams(@, s1.tobj[ct].Params)]]]
             s3 == PushRevertAction(s2,
                      [kind |-> "param", taskName |-> session.tobj[ct].Name,
                       paramName |-> paramName, paramExisted |-> paramExisted,
                       originalParamSpec |->
                           IF paramExisted THEN session.tobj[ct].Params[idx + 1]
                           ELSE [Name |-> Empty, Default |-> Empty],
                       originalParamIndex |->
                           IF paramExisted THEN idx ELSE Len(s1.tobj[ct].Params) - 1])
         IN Ret(s3, TaskResult(ct), NoErr)

\* case "param"
Param(baseCmd, session) ==
    IF baseCmd.Action # "" THEN Fail(session, "does not take an action")
    ELSE IF GetCurrentTask(session) = Nil THEN Fail(session, "no current task")
    ELSE IF Len(baseCmd.Args) # 2 THEN Fail(session, "expects 2 arguments")
    ELSE LET paramName == TrimSuffix(baseCmd.Args[1], <<"=">>)
             raw == baseCmd.Args[2]
             paramValue == IF Quoted(raw, DQuote) \/ Quoted(raw, BQuote)
                           THEN StripEnds(raw) ELSE raw
             ct == GetCurrentTask(session)
             taskName == session.tobj[ct].Name
             idx == FindParam(session.tobj[ct].Params, paramName)
             paramExisted == idx >= 0
             originalParamSpec ==
                 IF paramExisted THEN session.tobj[ct].Params[idx + 1]
                 ELSE [Name |-> Empty, Default |-> Empty]
             s1 == IF paramExisted
                   THEN [session EXCEPT !.tobj[ct].Params[idx + 1].Default = paramValue]
                   ELSE [session EXCEPT !.tobj[ct].Params =
                            Append(@, [Name |-> paramName, Default |-> paramValue])]
             originalParamIndex ==
                 IF paramExisted THEN idx ELSE Len(s1.tobj[ct].Params) - 1
             s2 == PushRevertAction(s1,
                      [kind |-> "param", taskName |-> taskName,
                       paramName |-> paramName, paramExisted |-> paramExisted,
                       originalParamSpec |-> originalParamSpec,
                       originalParamIndex |-> originalParamIndex])
         IN Ret(s2, TaskResult(ct), NoErr)

Flag2 == <<"--">>
ImageFlag == <<"--", "image">>
ImageFlagEq == <<"--", "image", "=">>

\* A first loop that keeps the last bare token, not the first, as the name
RECURSIVE ScanStepArgsLastBare(_, _, _)
ScanStepArgsLastBare(args, stepName, imageName) ==
    IF args = << >> THEN [stepName |-> stepName, imageName |-> imageName]
    ELSE LET arg == Head(args)
         IN IF HasPrefix(arg, ImageFlagEq)
            THEN ScanStepArgsLastBare(Tail(args), stepName, TrimPrefix(arg, ImageFlagEq))
            ELSE IF ~HasPrefix(arg, Flag2) /\ ~Contains(arg, <<"=">>)
            THEN ScanStepArgsLastBare(Tail(args), arg, imageName)
            ELSE ScanStepArgsLastBare(Tail(args), stepName, imageName)

\* The first loop of step add over Args: the last --image=X value and the
\* first bare token.
RECURSIVE ScanStepArgs(_, _, _)
ScanStepArgs(args, stepName, imageName) ==
    IF args = << >> THEN [stepName |-> stepName, imageName |-> imageName]
    ELSE LET arg == Head(args)
         IN IF HasPrefix(arg, ImageFlagEq)
            THEN ScanStepArgs(Tail(args), stepName, TrimPrefix(arg, ImageFlagEq))
            ELSE IF arg = ImageFlag
            THEN ScanStepArgs(Tail(args), stepName, imageName)
            ELSE IF ~HasPrefix(arg, Flag2) /\ ~Contains(arg, <<"=">>)
            THEN ScanStepArgs(Tail(args),
                              IF stepName = Empty THEN arg ELSE stepName, imageName)
            ELSE ScanStepArgs(Tail(args), stepName, imageName)

\* The second loop: the token after the first "--image" that has one.
ImageAfterFlag(args) ==
    LET hits == {i \in 1..Len(args) : args[i] = ImageFlag /\ i + 1 <= Len(args)}
    IN IF hits = {} THEN Empty
       ELSE args[(CHOOSE i \in hits : \A j \in hits : i <= j) + 1]

\* A step add that pushes no reversal action
StepAddNoPush(baseCmd, session) ==
    IF GetCurrentTask(session) = Nil THEN Fail(session, "no current task")
    ELSE LET ct == GetCurrentTask(session)
             scan == ScanStepArgs(baseCmd.Args, Empty, Empty)
             imageName == IF scan.imageName = Empty
                          THEN ImageAfterFlag(baseCmd.Args) ELSE scan.imageName
         IN IF scan.stepName = Empty THEN Fail(session, "step name not provided")
            ELSE IF imageName = Empty THEN Fail(session, "step image not provided")
            ELSE Ret([session EXCEPT !.tobj[ct].Steps =
                         Append(@, [Name |-> scan.stepName, Image |-> imageName,
                                    Script |-> baseCmd.Script])],
                     TaskResult(ct), NoErr)

\* A step add that looks at its arguments before it looks for the current
\* task
StepAddArgsFirst(baseCmd, session) ==
    LET scan == ScanStepArgs(baseCmd.Args, Empty, Empty)
        imageName == IF scan.imageName = Empty
                     THEN ImageAfterFlag(baseCmd.Args) ELSE scan.imageName
    IN IF scan.stepName = Empty THEN Fail(session, "step name not provided")
       ELSE IF imageName = Empty THEN Fail(session, "step image not provided")
       ELSE IF GetCurrentTask(session) = Nil THEN Fail(session, "no current task")
       ELSE LET ct == GetCurrentTask(session)
                params == session.tobj[ct].Params
                actualScript == IF Quoted(baseCmd.Script, BQuote)
                                THEN StripEnds(baseCmd.Script) ELSE baseCmd.Script
                s1 == [session EXCEPT !.tobj[ct].Steps =
                          Append(@, [Name |-> scan.stepName,
                                     Image |-> interpolateParams(imageName, params),
                                     Script |-> interpolateParams(actualScript, params)])]
            IN Ret(PushRevertAction(s1,
                      [kind |-> "step add",
                       taskNameForUndo |-> session.tobj[ct].Name,
                       originalStepsLen |-> Len(session.tobj[ct].Steps)]),
                   TaskResult(ct), NoErr)

\* case "step" / "add"
StepAdd(baseCmd, session) ==
    IF GetCurrentTask(session) = Nil THEN Fail(session, "no current task")
    ELSE LET ct == GetCurrentTask(session)
             taskNameForUndo == session.tobj[ct].Name
             originalStepsLen == Len(session.tobj[ct].Steps)
             scan == ScanStepArgs(baseCmd.Args, Empty, Empty)
             stepName == scan.stepName
             imageName == IF scan.imageName = Empty
                          THEN ImageAfterFlag(baseCmd.Args) ELSE scan.imageName
         IN IF stepName = Empty THEN Fail(session, "step name not provided")
            ELSE IF imageName = Empty THEN Fail(session, "step image not provided")
            ELSE LET actualScript == IF Quoted(baseCmd.Script, BQuote)
                                     THEN StripEnds(baseCmd.Script)
                                     ELSE baseCmd.Script
                     params == session.tobj[ct].Params
                     newStep == [Name |-> stepName,
                                 Image |-> interpolateParams(imageName, params),
                                 Script |-> interpolateParams(actualScript, params)]
                     s1 == [session EXCEPT !.tobj[ct].Steps = Append(@, newStep)]
                     s2 == PushRevertAction(s1,
                              [kind |-> "step add",
                               taskNameForUndo |-> taskNameForUndo,
                               originalStepsLen |-> originalStepsLen])
                 IN Ret(s2, TaskResult(ct), NoErr)

\* Unquoting of a run param value: "..." or '...'
UnquoteRunValue(v) ==
    IF Len(v) >= 2 /\ (Quoted(v, DQuote) \/ Quoted(v, SQuote)) THEN StripEnds(v) ELSE v

\* Position (from 1) of the first "=" of s; s contains one.
FirstEq(s) == CHOOSE i \in 1..Len(s) : s[i] = "=" /\ \A j \in 1..(i - 1) : s[j] # "="

RunParam(name, value) == [Name |-> name, Value |-> value]

\* The loop of pipeline run / task run over args = baseCmd.Args[1:], from
\* Go index i.  err is NoErr when the whole list parsed.
RECURSIVE ParseRunArgs(_, _, _, _)
ParseRunArgs(args, i, runParams, runNamespace) ==
    LET n == Len(args)
        Done(err) == [err |-> err, runParams |-> runParams,
                      runNamespace |-> runNamespace]
    IN IF i >= n THEN Done(NoErr)
       ELSE IF args[i + 1] = <<"param">>
       THEN IF i + 2 < n
            THEN LET paramNameArg == args[i + 2]
                     paramValueArg == args[i + 3]
                 IN IF HasSuffix(paramNameArg, <<"=">>)
                    THEN LET paramName == TrimSuffix(paramNameArg, <<"=">>)
                         IN IF paramName = Empty
                            THEN Done("invalid param format")
                            ELSE ParseRunArgs(args, i + 3,
                                    Append(runParams,
                                           RunParam(paramName,
                                                    UnquoteRunValue(paramValueArg))),
                                    runNamespace)
                    ELSE Done("invalid param format")
            ELSE IF i + 1 < n /\ Contains(args[i + 2], <<"=">>)
                    /\ ~HasSuffix(args[i + 2], <<"=">>)
            THEN LET arg == args[i + 2]
                     k == FirstEq(arg)
                     paramName == SubSeq(arg, 1, k - 1)
                     paramValue == SubSeq(arg, k + 1, Len(arg))
                 IN IF paramName = Empty
                    THEN Done("invalid param format")
                    ELSE ParseRunArgs(args, i + 2,
                            Append(runParams,
                                   RunParam(paramName, UnquoteRunValue(paramValue))),
                            runNamespace)
            ELSE Done("invalid param format")
       ELSE IF args[i + 1] = <<"namespace">>
       THEN IF i + 1 >= n
            THEN Done("namespace name missing")
            ELSE ParseRunArgs(args, i + 2, runParams, args[i + 2])
       ELSE Done("unexpected argument")

DefaultNamespace == <<"default">>

\* A run that calls the runner before it looks at the outcome of parsing
RunBeforeParse(baseCmd, session, entities, runner, runErr) ==
    IF Len(baseCmd.Args) < 1 THEN Fail(session, "expects at least 1 argument")
    ELSE LET name == baseCmd.Args[1]
         IN IF name \notin DOMAIN entities THEN Fail(session, "not found")
            ELSE LET parsed == ParseRunArgs(Tail(baseCmd.Args), 0, << >>,
                                            DefaultNamespace)
                     call == <<runner, name, parsed.runParams, parsed.runNamespace>>
                 IN IF runErr
                    THEN RetCalls(session, NilResult, "failed to run", <<call>>)
                    ELSE IF parsed.err # NoErr
                    THEN RetCalls(session, NilResult, parsed.err, <<call>>)
                    ELSE RetCalls(session, NilResult, NoErr, <<call>>)

\* case "pipeline" / "run" and case "task" / "run": the two cases differ
\* in the map consulted and the runner called.  runErr is the outcome of
\* session.RunPipeline / session.RunTask, a remote call.
Run(baseCmd, session, entities, runner, runErr) ==
    IF Len(baseCmd.Args) < 1 THEN Fail(session, "expects at least 1 argument")
    ELSE LET name == baseCmd.Args[1]
         IN IF name \notin DOMAIN entities THEN Fail(session, "not found")
            ELSE LET parsed == ParseRunArgs(Tail(baseCmd.Args), 0, << >>,
                                            DefaultNamespace)
                     call == <<runner, name, parsed.runParams, parsed.runNamespace>>
                 IN IF parsed.err # NoErr THEN Fail(session, parsed.err)
                    ELSE IF runErr
                    THEN RetCalls(session, NilResult, "failed to run", <<call>>)
                    ELSE RetCalls(session, NilResult, NoErr, <<call>>)

PipelineRun(baseCmd, session, runErr) ==
    Run(baseCmd, session, GetPipelines(session), "RunPipeline", runErr)

TaskRun(baseCmd, session, runErr) ==
    Run(baseCmd, session, GetTasks(session), "RunTask", runErr)

(* ---------------------------------------------------------------------- *)
(* Byte order of strings (sort.Strings, sort.Slice by Name)               *)
(* ---------------------------------------------------------------------- *)
\* The symbols in the byte order of their first character; no two symbols
\* start with the same character, so the order of symbols is the order of
\* the strings they spell.
Alphabet == <<"dquote", "$(params.", "squote", ")", "--", "=", "bquote",
              "a", "b", "default", "image", "namespace", "param", "v", "w",
              "x", "y">>
Rank(c) == CHOOSE i \in 1..Len(Alphabet) : Alphabet[i] = c

RECURSIVE StrLess(_, _)
StrLess(s, t) ==
    IF t = << >> THEN FALSE
    ELSE IF s = << >> THEN TRUE
    ELSE IF Head(s) = Head(t) THEN StrLess(Tail(s), Tail(t))
    ELSE Rank(Head(s)) < Rank(Head(t))

\* A sort that puts the greatest string first
RECURSIVE SortStringsDown(_)
SortStringsDown(names) ==
    IF names = {} THEN << >>
    ELSE LET most == CHOOSE n \in names : \A m \in names \ {n} : StrLess(m, n)
         IN <<most>> \o SortStringsDown(names \ {most})

\* sort.Strings over a set of distinct strings
RECURSIVE SortStrings(_)
SortStrings(names) ==
    IF names = {} THEN << >>
    ELSE LET least == CHOOSE n \in names : \A m \in names \ {n} : StrLess(n, m)
         IN <<least>> \o SortStrings(names \ {least})

(* ---------------------------------------------------------------------- *)
(* Collaborators.  Their verdicts are inputs: bad names the entities the   *)
(* tekton validator rejects, fails the entities whose remote patch fails. *)
(* ---------------------------------------------------------------------- *)
\* A validator that stops at the first invalid pipeline: the tasks are not
\* looked at and one failure is reported
ValidateSessionFirst(s, bad) ==
    LET badPipelines == {<<"pipeline", n>> : n \in (DOMAIN GetPipelines(s)) \cap bad.pipelines}
    IN IF badPipelines # {} THEN {CHOOSE x \in badPipelines : TRUE}
       ELSE {<<"task", n>> : n \in (DOMAIN GetTasks(s)) \cap bad.tasks}

\* engine.ValidateSession: the failures collected over all pipelines and
\* all tasks; the error is nil when there is none.
ValidateSession(s, bad) ==
    {<<"pipeline", n>> : n \in (DOMAIN GetPipelines(s)) \cap bad.pipelines}
    \cup {<<"task", n>> : n \in (DOMAIN GetTasks(s)) \cap bad.tasks}

\* yaml.Marshal of a deep copy of an entity
Yaml(kind, obj) == [Kind |-> kind, obj |-> obj]

RECURSIVE YamlDocs(_, _, _)
YamlDocs(kind, names, objOf) ==
    IF names = << >> THEN << >>
    ELSE <<Yaml(kind, objOf[Head(names)])>> \o YamlDocs(kind, Tail(names), objOf)

\* export.ExportAll: tasks sorted by name, then pipelines sorted by name.
ExportAll(s) ==
    YamlDocs("Task", SortStrings(DOMAIN GetTasks(s)),
             [n \in DOMAIN GetTasks(s) |-> s.tobj[GetTasks(s)[n]]])
    \o YamlDocs("Pipeline", SortStrings(DOMAIN GetPipelines(s)),
                [n \in DOMAIN GetPipelines(s) |-> s.pobj[GetPipelines(s)[n]]])

\* An ApplyAll that gives up at the first pipeline whose patch fails: the
\* tasks are not attempted and one failure is reported
ApplyAllShortCircuit(s, ns, fails) ==
    IF fails.client THEN [attempted |-> {}, failed |-> {<<"client", Empty>>}]
    ELSE
    LET badPipelines == {<<"pipeline", n>> : n \in (DOMAIN GetPipelines(s)) \cap fails.pipelines}
        badTasks == {<<"task", n>> : n \in (DOMAIN GetTasks(s)) \cap fails.tasks}
    IN IF badPipelines # {}
       THEN [attempted |-> {<<"pipeline", n>> : n \in DOMAIN GetPipelines(s)},
             failed |-> {CHOOSE x \in badPipelines : TRUE}]
       ELSE [attempted |-> {<<"pipeline", n>> : n \in DOMAIN GetPipelines(s)}
                           \cup {<<"task", n>> : n \in DOMAIN GetTasks(s)},
             failed |-> badTasks]

\* Session.ApplyAll: every pipeline and every task is patched; the patches
\* that failed are collected and the error is nil when there is none.
ApplyAll(s, ns, fails) ==
    IF fails.client THEN [attempted |-> {}, failed |-> {<<"client", Empty>>}]
    ELSE
    LET attempted == {<<"pipeline", n>> : n \in DOMAIN GetPipelines(s)}
                     \cup {<<"task", n>> : n \in DOMAIN GetTasks(s)}
        failed == {<<"pipeline", n>> : n \in (DOMAIN GetPipelines(s)) \cap fails.pipelines}
                  \cup {<<"task", n>> : n \in (DOMAIN GetTasks(s)) \cap fails.tasks}
    IN [attempted |-> attempted, failed |-> failed]

\* An export that does not wait for the validator's verdict
ExportUngated(baseCmd, session, ext) ==
    IF baseCmd.Action # "all" THEN Fail(session, "unknown action")
    ELSE IF ext.exportErr
    THEN RetCalls(session, NilResult, "failed to export",
                  <<<<"ValidateSession">>, <<"ExportAll">>>>)
    ELSE RetCalls(session, BytesResult(ExportAll(session)), NoErr,
                  <<<<"ValidateSession">>, <<"ExportAll">>>>)

\* case "export"
Export(baseCmd, session, ext) ==
    IF baseCmd.Action # "all" THEN Fail(session, "unknown action")
    ELSE IF ValidateSession(session, ext.bad) # {}
    THEN RetCalls(session, NilResult, "validation failed", <<<<"ValidateSession">>>>)
    ELSE IF ext.exportErr
    THEN RetCalls(session, NilResult, "failed to export",
                  <<<<"ValidateSession">>, <<"ExportAll">>>>)
    ELSE RetCalls(session, BytesResult(ExportAll(session)), NoErr,
                  <<<<"ValidateSession">>, <<"ExportAll">>>>)

\* case "apply"
Apply(baseCmd, session, ext) ==
    IF baseCmd.Action # "all" THEN Fail(session, "unknown action")
    ELSE IF Len(baseCmd.Args) # 1 THEN Fail(session, "expects 1 argument")
    ELSE IF ValidateSession(session, ext.bad) # {}
    THEN RetCalls(session, NilResult, "validation failed", <<<<"ValidateSession">>>>)
    ELSE LET namespace == baseCmd.Args[1]
             applied == ApplyAll(session, namespace, ext.fails)
             calls == <<<<"ValidateSession">>,
                        <<"ApplyAll", namespace, applied.attempted>>>>
         IN IF applied.failed # {}
            THEN RetCalls(session, NilResult, "failed to apply", calls)
            ELSE RetCalls(session, NilResult, NoErr, calls)

\* case "list"
List(baseCmd, session) ==
    CASE baseCmd.Action = "tasks" ->
            IF Len(baseCmd.Args) # 0 THEN Fail(session, "expects 0 arguments")
            ELSE IF DOMAIN GetTasks(session) = {}
            THEN Ret(session, StringsResult(<<"No tasks defined.">>), NoErr)
            ELSE Ret(session, StringsResult(SortStrings(DOMAIN GetTasks(session))), NoErr)
      [] baseCmd.Action = "pipelines" ->
            IF Len(baseCmd.Args) # 0 THEN Fail(session, "expects 0 arguments")
            ELSE IF DOMAIN GetPipelines(session) = {}
            THEN Ret(session, StringsResult(<<"No pipelines defined.">>), NoErr)
            ELSE Ret(session, StringsResult(SortStrings(DOMAIN GetPipelines(session))),
                     NoErr)
      [] baseCmd.Action = "stepactions" ->
            IF Len(baseCmd.Args) # 0 THEN Fail(session, "expects 0 arguments")
            ELSE Ret(session,
                     StringsResult(<<"list stepactions is not implemented yet">>), NoErr)
      [] OTHER -> Fail(session, "unknown action")

\* A show that makes the entity it shows the current one
ShowSelects(baseCmd, session) ==
    CASE baseCmd.Action = "task" ->
            IF Len(baseCmd.Args) # 1 THEN Fail(session, "expects 1 argument")
            ELSE IF baseCmd.Args[1] \notin DOMAIN GetTasks(session)
            THEN Fail(session, "not found")
            ELSE Ret(SetCurrentTask(session, GetTasks(session)[baseCmd.Args[1]]),
                     BytesResult(Yaml("Task",
                                      session.tobj[GetTasks(session)[baseCmd.Args[1]]])),
                     NoErr)
      [] baseCmd.Action = "pipeline" ->
            IF Len(baseCmd.Args) # 1 THEN Fail(session, "expects 1 argument")
            ELSE IF baseCmd.Args[1] \notin DOMAIN GetPipelines(session)
            THEN Fail(session, "not found")
            ELSE Ret(SetCurrentPipeline(session, GetPipelines(session)[baseCmd.Args[1]]),
                     BytesResult(Yaml("Pipeline",
                                      session.pobj[GetPipelines(session)[baseCmd.Args[1]]])),
                     NoErr)
      [] OTHER -> Fail(session, "unknown action")

\* case "show"
Show(baseCmd, session) ==
    CASE baseCmd.Action = "task" ->
            IF Len(baseCmd.Args) # 1 THEN Fail(session, "expects 1 argument")
            ELSE IF baseCmd.Args[1] \notin DOMAIN GetTasks(session)
            THEN Fail(session, "not found")
            ELSE Ret(session,
                     BytesResult(Yaml("Task",
                                      session.tobj[GetTasks(session)[baseCmd.Args[1]]])),
                     NoErr)
      [] baseCmd.Action = "pipeline" ->
            IF Len(baseCmd.Args) # 1 THEN Fail(session, "expects 1 argument")
            ELSE IF baseCmd.Args[1] \notin DOMAIN GetPipelines(session)
            THEN Fail(session, "not found")
            ELSE Ret(session,
                     BytesResult(Yaml("Pipeline",
                                      session.pobj[GetPipelines(session)[baseCmd.Args[1]]])),
                     NoErr)
      [] OTHER -> Fail(session, "unknown action")

\* An undo that refuses an empty stack
UndoStrict(baseCmd, session) ==
    IF Len(baseCmd.Args) > 0 \/ baseCmd.Action # ""
    THEN Fail(session, "does not take arguments or actions")
    ELSE IF Len(session.PastActions) = 0 THEN Fail(session, "nothing to undo")
    ELSE RetCalls(Invoke(PopRevertAction(session).action, PopRevertAction(session).s),
                  NilResult, NoErr,
                  <<<<"revert", PopRevertAction(session).action>>>>)

\* case "undo"
Undo(baseCmd, session) ==
    IF Len(baseCmd.Args) > 0 \/ baseCmd.Action # ""
    THEN Fail(session, "does not take arguments or actions")
    ELSE LET popped == PopRevertAction(session)
         IN IF Len(session.PastActions) # 0
            THEN RetCalls(Invoke(popped.action, popped.s), NilResult, NoErr,
                          <<<<"revert", popped.action>>>>)
            ELSE Ret(popped.s, NilResult, NoErr)

\* A reset that undoes: it invokes every pending reversal action, the most
\* recent first, and returns them as calls
RECURSIVE Unwind(_, _)
Unwind(session, calls) ==
    IF Len(session.PastActions) = 0 THEN RetCalls(session, NilResult, NoErr, calls)
    ELSE LET popped == PopRevertAction(session)
         IN Unwind(Invoke(popped.action, popped.s),
                   Append(calls, <<"revert", popped.action>>))

ResetByUndo(baseCmd, session) ==
    IF Len(baseCmd.Args) > 0 \/ baseCmd.Action # ""
    THEN Fail(session, "does not take arguments or actions")
    ELSE Unwind(session, << >>)

\* case "reset"
ResetCmd(baseCmd, session) ==
    IF Len(baseCmd.Args) > 0 \/ baseCmd.Action # ""
    THEN Fail(session, "does not take arguments or actions")
    ELSE Ret(Reset(session), NilResult, NoErr)

\* case "validate"
Validate(baseCmd, session, ext) ==
    IF Len(baseCmd.Args) > 0 \/ baseCmd.Action # ""
    THEN Fail(session, "does not take arguments or actions")
    ELSE IF ValidateSession(session, ext.bad) # {}
    THEN RetCalls(session, NilResult, "validation failed", <<<<"ValidateSession">>>>)
    ELSE RetCalls(session, NilResult, NoErr, <<<<"ValidateSession">>>>)

\* ExecuteCommand(cmdPos, baseCmd, session, prevResult, whenClause).  Source
\* positions only prefix the error text and are left out; prevResult is
\* accepted and never read.  ext holds the collaborators' verdicts.
ExecuteCommand(baseCmd, session, prevResult, whenClause, ext) ==
    CASE baseCmd.Kind = "pipeline" ->
            (CASE baseCmd.Action = "create" -> PipelineCreate(baseCmd, session)
               [] baseCmd.Action = "select" -> PipelineSelect(baseCmd, session)
               [] baseCmd.Action = "run" -> PipelineRun(baseCmd, session, ext.runErr)
               [] OTHER -> Fail(session, "unknown action"))
      [] baseCmd.Kind = "task" ->
            (CASE baseCmd.Action = "create" -> TaskCreate(baseCmd, session, whenClause)
               [] baseCmd.Action = "select" -> TaskSelect(baseCmd, session)
               [] baseCmd.Action = "run" -> TaskRun(baseCmd, session, ext.runErr)
               [] OTHER -> Fail(session, "unknown action"))
      [] baseCmd.Kind = "param" -> Param(baseCmd, session)
      [] baseCmd.Kind = "step" ->
            (CASE baseCmd.Action = "add" -> StepAdd(baseCmd, session)
               [] OTHER -> Fail(session, "unknown action"))
      [] baseCmd.Kind = "export" -> Export(baseCmd, session, ext)
      [] baseCmd.Kind = "apply" -> Apply(baseCmd, session, ext)
      [] baseCmd.Kind = "list" -> List(baseCmd, session)
      [] baseCmd.Kind = "show" -> Show(baseCmd, session)
      [] baseCmd.Kind = "undo" -> Undo(baseCmd, session)
      [] baseCmd.Kind = "reset" -> ResetCmd(baseCmd, session)
      [] baseCmd.Kind = "validate" -> Validate(baseCmd, session, ext)
      [] OTHER -> Fail(session, "unknown command kind")

(* ---------------------------------------------------------------------- *)
(* Inputs: the lines an operator types, parsed                            *)
(* ---------------------------------------------------------------------- *)
\* Pipeline names: the empty quoted string "" and an identifier.
PipelineNames == {Empty, <<"a">>}
TaskNames == {<<"a">>, <<"b">>}
Names == PipelineNames \cup TaskNames
ParamNames == {<<"v">>, <<"w">>}
ParamValues == {<<"x">>, <<"y">>}
StepNames == {<<"a">>}
Images == {<<"x">>, <<"$(params.", "v", ")">>}
Scripts == {Empty, <<"bquote", "$(params.", "v", ")", "bquote">>}
Namespaces == {<<"a">>}

Cmd(kind, action, args, script) ==
    [Kind |-> kind, Action |-> action, Args |-> args, Script |-> script]

NameArgs(names) == {<<n>> : n \in names} \cup {<< >>}

\* when L == R and when L != R, as parsed: one condition per clause
WhenClauses ==
    {<<[Left |-> <<"a">>, Operator |-> <<op>>, Right |-> <<"b">>]>> : op \in {"==", "!="}}

\* Verdicts of the validator and of the remote patches
NoneBad == [pipelines |-> {}, tasks |-> {}]
AllBad == [pipelines |-> Names, tasks |-> Names]
Verdicts == {NoneBad, AllBad, [pipelines |-> {<<"a">>}, tasks |-> {}],
             [pipelines |-> {}, tasks |-> {<<"a">>}]}
NoFail == [client |-> FALSE, pipelines |-> {}, tasks |-> {}]
PatchOutcomes == {NoFail, [NoFail EXCEPT !.client = TRUE],
                  [NoFail EXCEPT !.tasks = {<<"a">>}]}
Quiet == [bad |-> NoneBad, exportErr |-> FALSE, fails |-> NoFail, runErr |-> FALSE]

RunArgs ==
    {<< >>,
     <<<<"a">>>>,
     <<<<"a">>, <<"namespace">>, <<"a">>>>,
     <<<<"a">>, <<"namespace">>>>,
     <<<<"a">>, <<"param">>, <<"v", "=">>, <<"x">>>>,
     <<<<"a">>, <<"param">>, <<"v">>, <<"x">>>>,
     <<<<"a">>, <<"x">>>>}

ParamArgs ==
    {<<n \o <<"=">>, v>> : n \in ParamNames, v \in ParamValues}
    \cup {<<<<"v", "=">>>>, <<<<"v">>, <<"x">>>>}

StepAddArgs ==
    {<<n, ImageFlag, i>> : n \in StepNames, i \in Images}
    \cup {<<n>> : n \in StepNames} \cup {<<ImageFlag, i>> : i \in Images}

\* The BaseCommands of each kind that are typed
PipelineCreateCmds == {Cmd("pipeline", "create", a, Empty) : a \in NameArgs(PipelineNames)}
PipelineSelectCmds == {Cmd("pipeline", "select", a, Empty) : a \in NameArgs(PipelineNames)}
PipelineRunCmds == {Cmd("pipeline", "run", a, Empty) : a \in RunArgs}
TaskCreateCmds == {Cmd("task", "create", a, Empty) : a \in NameArgs(TaskNames)}
TaskSelectCmds == {Cmd("task", "select", a, Empty) : a \in NameArgs(TaskNames)}
TaskRunCmds == {Cmd("task", "run", a, Empty) : a \in RunArgs}
ParamCmds ==
    {Cmd("param", "", a, Empty) : a \in ParamArgs}
    \cup {Cmd("param", "set", <<<<"v", "=">>, <<"x">>>>, Empty)}
StepAddCmds == {Cmd("step", "add", a, sc) : a \in StepAddArgs, sc \in Scripts}
ExportCmds == {Cmd("export", act, << >>, Empty) : act \in {"all", ""}}
ApplyCmds ==
    {Cmd("apply", "all", a, Empty) : a \in NameArgs(Namespaces)}
    \cup {Cmd("apply", "", <<<<"a">>>>, Empty)}
ListCmds ==
    {Cmd("list", act, << >>, Empty) : act \in {"tasks", "pipelines", "stepactions", ""}}
    \cup {Cmd("list", "tasks", <<<<"a">>>>, Empty)}
ShowCmds == {Cmd("show", act, a, Empty) : act \in {"task", "pipeline", ""},
                                          a \in NameArgs({<<"a">>})}
UndoCmds == {Cmd("undo", "", a, Empty) : a \in {<< >>, <<<<"a">>>>}}
ResetCmds == {Cmd("reset", "", a, Empty) : a \in {<< >>, <<<<"a">>>>}}
ValidateCmds == {Cmd("validate", "", a, Empty) : a \in {<< >>, <<<<"a">>>>}}
UnknownCmds == {Cmd(k, "", << >>, Empty) : k \in {"a", "pipeline", "task", "step"}}

\* What the validator, the exporter, the cluster and the runner answer
Exts ==
    {Quiet, [Quiet EXCEPT !.runErr = TRUE], [Quiet EXCEPT !.exportErr = TRUE]}
    \cup {[Quiet EXCEPT !.bad = b] : b \in Verdicts}
    \cup {[Quiet EXCEPT !.fails = f] : f \in PatchOutcomes}

BaseCmds ==
    PipelineCreateCmds \cup PipelineSelectCmds \cup PipelineRunCmds
    \cup TaskCreateCmds \cup TaskSelectCmds \cup TaskRunCmds
    \cup ParamCmds \cup StepAddCmds \cup ExportCmds \cup ApplyCmds
    \cup ListCmds \cup ShowCmds \cup UndoCmds \cup ResetCmds
    \cup ValidateCmds \cup UnknownCmds

\* A nil *WhenClause or a parsed one
WhenOpts == {<< >>} \cup WhenClauses

(* ---------------------------------------------------------------------- *)
(* State                                                                  *)
(* ---------------------------------------------------------------------- *)
VARIABLES
    sess,              \* repl.sess: the session
    activeWhenClause,  \* executor's local activeWhenClause (<< >> is nil)
    prevResult         \* executor's local prevResult

vars == <<sess, activeWhenClause, prevResult>>

Init ==
    /\ sess = NewSession
    /\ activeWhenClause = << >>
    /\ prevResult = NilResult

(* ---------------------------------------------------------------------- *)
(* repl.executor: the loop over the segments of a parsed line             *)
(* ---------------------------------------------------------------------- *)
\* parser.Command: a WhenClause or a BaseCommand.  ext, what the outside
\* world answers while the command runs, rides with the command.
WhenSeg(w) == [seg |-> "when", When |-> w]
CmdSeg(baseCmd, ext) == [seg |-> "cmd", Cmd |-> baseCmd, ext |-> ext]

\* executor's view: the session and its two locals
Locals(session, prev, whenClause) ==
    [sess |-> session, prevResult |-> prev, activeWhenClause |-> whenClause]

\* engine.ExecuteCommand as executor sees it: objects no pointer reaches
\* any more are gone
Step(baseCmd, session, prev, whenClause, ext) ==
    [ExecuteCommand(baseCmd, session, prev, whenClause, ext) EXCEPT !.s = Collect(@)]

\* prevResult = result; activeWhenClause = nil
AfterCmd(r) == Locals(r.s, r.result, << >>)

\* An iteration that leaves the loop's locals alone when the command fails
LoopBodySkipOnError(cmdWrapper, loc) ==
    IF cmdWrapper.seg = "when"
    THEN [loc EXCEPT !.activeWhenClause = cmdWrapper.When]
    ELSE LET r == Step(cmdWrapper.Cmd, loc.sess, loc.prevResult,
                       loc.activeWhenClause, cmdWrapper.ext)
         IN IF r.err # NoErr THEN [loc EXCEPT !.sess = r.s] ELSE AfterCmd(r)

\* One iteration of  for _, cmdWrapper := range pipelineLine.Cmds
LoopBody(cmdWrapper, loc) ==
    IF cmdWrapper.seg = "when"
    THEN [loc EXCEPT !.activeWhenClause = cmdWrapper.When]
    ELSE AfterCmd(Step(cmdWrapper.Cmd, loc.sess, loc.prevResult,
                       loc.activeWhenClause, cmdWrapper.ext))

\* A loop that gives up the rest of the line when a command fails
RECURSIVE LoopAbortOnError(_, _)
LoopAbortOnError(cmds, loc) ==
    IF cmds = << >> THEN loc
    ELSE IF Head(cmds).seg = "cmd"
            /\ Step(Head(cmds).Cmd, loc.sess, loc.prevResult,
                    loc.activeWhenClause, Head(cmds).ext).err # NoErr
    THEN LoopBody(Head(cmds), loc)
    ELSE LoopAbortOnError(Tail(cmds), LoopBody(Head(cmds), loc))

\* The whole loop over the segments of one line
RECURSIVE Loop(_, _)
Loop(cmds, loc) ==
    IF cmds = << >> THEN loc ELSE Loop(Tail(cmds), LoopBody(Head(cmds), loc))

\* executor(in) on a line that parses into cmds: the session it leaves
executor(cmds, session) == Loop(cmds, Locals(session, NilResult, << >>)).sess

\* A segment of the typed line that is no Command: nothing, as after a
\* trailing pipe, or text the grammar of Command does not accept
BadSeg == [seg |-> "bad"]

\* A parser that wants a command after every when clause: a line that ends
\* in a when clause does not parse
ParseLineCmdLast(in) ==
    IF (\E i \in 1..Len(in) : in[i].seg = "bad")
       \/ (in # << >> /\ in[Len(in)].seg = "when")
    THEN [err |-> TRUE, Cmds |-> << >>]
    ELSE [err |-> FALSE, Cmds |-> in]

\* parser.ParseLine(in), in split at its pipes: PipelineLine is
\* @@ ("|" @@)*, so the line parses when every segment is a Command
ParseLine(in) ==
    IF \E i \in 1..Len(in) : in[i].seg = "bad"
    THEN [err |-> TRUE, Cmds |-> << >>]
    ELSE [err |-> FALSE, Cmds |-> in]

\* An executor that dispatches the commands in front of the first segment
\* that does not parse
executorPrefix(in, session) ==
    LET bad == {i \in 1..Len(in) : in[i].seg = "bad"}
        upTo == IF bad = {} THEN Len(in)
                ELSE (CHOOSE i \in bad : \A j \in bad : i <= j) - 1
    IN executor(SubSeq(in, 1, upTo), session)

\* executor(in): the line is parsed; on a parse error the error is printed
\* and executor returns, otherwise the loop runs over pipelineLine.Cmds
executorOf(in, session) ==
    LET pipelineLine == ParseLine(in)
    IN IF pipelineLine.err THEN session
       ELSE executor(pipelineLine.Cmds, session)

\* Several lines, one after the other
RECURSIVE Lines(_, _)
Lines(lines, session) ==
    IF lines = << >> THEN session
    ELSE Lines(Tail(lines), executor(Head(lines), session))

Here == Locals(sess, prevResult, activeWhenClause)

Becomes(loc) ==
    /\ sess' = loc.sess
    /\ prevResult' = loc.prevResult
    /\ activeWhenClause' = loc.activeWhenClause

\* if cmdWrapper.When != nil { activeWhenClause = cmdWrapper.When; continue }
WhenSegment ==
    \E w \in WhenClauses :
        /\ Becomes(LoopBody(WhenSeg(w), Here))

\* if cmdWrapper.Cmd != nil { result, execErr := engine.ExecuteCommand(...);
\*   prevResult = result; activeWhenClause = nil }
Dispatch(baseCmd, ext) ==
    \E loc \in {LoopBody(CmdSeg(baseCmd, ext), Here)} :
        /\ Len(loc.sess.PastActions) <= MaxUndo
        /\ Becomes(loc)

\* The loop ends: executor returns and its locals die.
EndOfLine ==
    /\ Becomes(Locals(sess, NilResult, << >>))

PipelineCreateCmd ==
    \E c \in PipelineCreateCmds :
        /\ Dispatch(c, Quiet)
PipelineSelectCmd ==
    \E c \in PipelineSelectCmds :
        /\ Dispatch(c, Quiet)
PipelineRunCmd ==
    \E c \in PipelineRunCmds, e \in BOOLEAN :
        /\ Dispatch(c, [Quiet EXCEPT !.runErr = e])
TaskCreateCmd ==
    \E c \in TaskCreateCmds :
        /\ Dispatch(c, Quiet)
TaskSelectCmd ==
    \E c \in TaskSelectCmds :
        /\ Dispatch(c, Quiet)
TaskRunCmd ==
    \E c \in TaskRunCmds, e \in BOOLEAN :
        /\ Dispatch(c, [Quiet EXCEPT !.runErr = e])
ParamCmd ==
    \E c \in ParamCmds :
        /\ Dispatch(c, Quiet)
StepAddCmd ==
    \E c \in StepAddCmds :
        /\ Dispatch(c, Quiet)
ExportCmd ==
    \E c \in ExportCmds, b \in {NoneBad, AllBad}, e \in BOOLEAN :
        /\ Dispatch(c, [Quiet EXCEPT !.bad = b, !.exportErr = e])
ApplyCmd ==
    \E c \in ApplyCmds, x \in {e \in Exts : ~e.runErr /\ ~e.exportErr} :
        /\ Dispatch(c, x)
ListCmd ==
    \E c \in ListCmds :
        /\ Dispatch(c, Quiet)
ShowCmd ==
    \E c \in ShowCmds :
        /\ Dispatch(c, Quiet)
UndoCmd ==
    \E c \in UndoCmds :
        /\ Dispatch(c, Quiet)
ResetCmdLine ==
    \E c \in ResetCmds :
        /\ Dispatch(c, Quiet)
ValidateCmd ==
    \E c \in ValidateCmds, b \in Verdicts :
        /\ Dispatch(c, [Quiet EXCEPT !.bad = b])
UnknownCmd ==
    \E c \in UnknownCmds :
        /\ Dispatch(c, Quiet)

Next ==
    \/ WhenSegment
    \/ EndOfLine
    \/ PipelineCreateCmd
    \/ PipelineSelectCmd
    \/ PipelineRunCmd
    \/ TaskCreateCmd
    \/ TaskSelectCmd
    \/ TaskRunCmd
    \/ ParamCmd
    \/ StepAddCmd
    \/ ExportCmd
    \/ ApplyCmd
    \/ ListCmd
    \/ ShowCmd
    \/ UndoCmd
    \/ ResetCmdLine
    \/ ValidateCmd
    \/ UnknownCmd

Spec == Init /\ [][Next]_vars

(* ---------------------------------------------------------------------- *)
(* Properties                                                             *)
(* ---------------------------------------------------------------------- *)
MutatingCmds == PipelineCreateCmds \cup TaskCreateCmds \cup ParamCmds \cup StepAddCmds
UndoLine == Cmd("undo", "", << >>, Empty)
ResetLine == Cmd("reset", "", << >>, Empty)
Create(kind, name) == Cmd(kind, "create", <<name>>, Empty)
Select(kind, name) == Cmd(kind, "select", <<name>>, Empty)

\* What dispatching baseCmd now, in the state reached, returns
Try(baseCmd, ext) == Step(baseCmd, sess, prevResult, activeWhenClause, ext)

\* What undo returns when it is the command dispatched after r was returned
ThenUndo(r) == Step(UndoLine, r.s, r.result, << >>, Quiet)

\* The answers of the outside world that baseCmd can meet
ExtsFor(baseCmd) ==
    IF baseCmd.Kind \in {"export", "apply", "validate"} \/ baseCmd.Action = "run"
    THEN Exts ELSE {Quiet}

\* C1: from every reachable session, a mutating command that succeeds and is
\* followed at once by undo leaves the session equal, in every component, to
\* the session before the command.
C1_UndoExactness ==
    \A c \in MutatingCmds :
        \A r \in {Try(c, Quiet)} : r.err = NoErr => ThenUndo(r).s = sess

\* C2: from every reachable session, after two successful mutating commands
\* one undo gives back the session as it was after the first command, and a
\* second undo gives back the session as it was before both.
C2_WalkBack ==
    \A c1 \in MutatingCmds, c2 \in MutatingCmds, w \in WhenOpts :
        \A r1 \in {Try(c1, Quiet)} :
            \A r2 \in {Step(c2, r1.s, r1.result, w, Quiet)} :
                \A u1 \in {ThenUndo(r2)} :
                    r1.err = NoErr /\ r2.err = NoErr
                    => u1.s = r1.s /\ ThenUndo(u1).s = sess

\* C3: pipeline create X with X a key of pipelines, and task create X with X
\* a key of tasks, fail with 'already exists' and leave the session as it was.
C3_Uniqueness ==
    /\ \A n \in DOMAIN sess.pipelines :
          \A r \in {Try(Create("pipeline", n), Quiet)} :
              r.err = "already exists" /\ r.s = sess
    /\ \A n \in DOMAIN sess.tasks :
          \A r \in {Try(Create("task", n), Quiet)} :
              r.err = "already exists" /\ r.s = sess

\* A session with a pipeline and a task in it, a when clause active, on
\* which creating either again is refused
C3_Witness ==
    /\ activeWhenClause # << >>
    /\ sess.currentPipeline # Nil /\ sess.currentTask # Nil
    /\ \E n \in DOMAIN sess.pipelines : Try(Create("pipeline", n), Quiet).err = "already exists"
    /\ \E n \in DOMAIN sess.tasks : Try(Create("task", n), Quiet).err = "already exists"

\* C4: every command that returns an error leaves the session exactly as it
\* was before the command.
C4_FailureAtomicity ==
    \A c \in BaseCmds :
        \A x \in ExtsFor(c) :
            \A r \in {Try(c, x)} : r.err # NoErr => r.s = sess

\* A session with entities, both current pointers and pending reversal
\* actions, on which commands of eight kinds fail
C4_Witness ==
    /\ sess.currentPipeline # Nil /\ sess.currentTask # Nil
    /\ Len(sess.PastActions) = MaxUndo
    /\ Cardinality({c.Kind : c \in {d \in BaseCmds : Try(d, Quiet).err # NoErr}}) >= 8
    /\ \E c \in StepAddCmds : Try(c, Quiet).err = "step image not provided"
    /\ \E c \in ApplyCmds : Try(c, [Quiet EXCEPT !.fails = [NoFail EXCEPT !.client = TRUE]]).err
                              = "failed to apply"

\* The conditions the claims expect on an edge created under when clause w
Expected(w) ==
    IF w = << >> THEN << >>
    ELSE <<[Input |-> w[1].Left,
            Operator |-> IF w[1].Operator = <<"==">> THEN "in" ELSE "notin",
            Values |-> <<w[1].Right>>]>>

\* The conditions of the edges named n in the current pipeline of session s
EdgeWhens(s, n) ==
    LET edges == s.pobj[s.currentPipeline].Tasks
    IN {edges[i].When : i \in {j \in 1..Len(edges) : edges[j].Name = n}}

EdgeCount(s, n) ==
    LET edges == s.pobj[s.currentPipeline].Tasks
    IN Cardinality({j \in 1..Len(edges) : edges[j].Name = n /\ edges[j].TaskRef = n})

Unconditioned(before, after, n) ==
    (n \notin DOMAIN before.tasks /\ n \in DOMAIN after.tasks
        /\ after.currentPipeline # Nil)
    => EdgeCount(after, n) = 1 /\ EdgeWhens(after, n) = {<< >>}

\* C6: a line that is only a when clause leaves the session as it was; in
\* a line  when w | c | task create t  the clause is gone once c, whatever
\* command it is, has run, and the edge for t has no condition; the same
\* holds when task create t is on the line after  when w.
C6_WhenLocality ==
    (activeWhenClause = << >> /\ prevResult = NilResult) =>
    \A w \in WhenClauses :
        /\ executor(<<WhenSeg(w)>>, sess) = sess
        /\ \A n \in TaskNames :
            \A t \in {CmdSeg(Create("task", n), Quiet)} :
                /\ Unconditioned(sess, Lines(<<<<WhenSeg(w)>>, <<t>>>>, sess), n)
                /\ \A c \in BaseCmds :
                    \A mid \in {Loop(<<WhenSeg(w), CmdSeg(c, Quiet)>>,
                                     Locals(sess, NilResult, << >>))} :
                        /\ mid.activeWhenClause = << >>
                        /\ Unconditioned(mid.sess, LoopBody(t, mid).sess, n)

\* A session with a current pipeline and pending reversal actions where
\* when w | task create t  gives t's edge a condition and
\* when w | export all | task create t  gives it none
C6_Witness ==
    /\ activeWhenClause = << >> /\ prevResult = NilResult
    /\ sess.currentPipeline # Nil /\ Len(sess.PastActions) = MaxUndo
    /\ \E w \in WhenClauses, n \in TaskNames \ DOMAIN sess.tasks :
        LET t == CmdSeg(Create("task", n), Quiet)
            x == CmdSeg(Cmd("export", "all", << >>, Empty), Quiet)
        IN /\ EdgeWhens(executor(<<WhenSeg(w), t>>, sess), n) = {Expected(w)}
           /\ EdgeWhens(executor(<<WhenSeg(w), x, t>>, sess), n) = {<< >>}

IsEmptySession(s) ==
    /\ DOMAIN s.pipelines = {} /\ DOMAIN s.tasks = {}
    /\ s.currentPipeline = Nil /\ s.currentTask = Nil
    /\ s.PastActions = << >>

\* C7: in every reachable state reset succeeds and leaves no pipeline, no
\* task, no current pipeline, no current task and an empty undo stack.
C7_Reset ==
    \A r \in {Try(ResetLine, Quiet)} : r.err = NoErr /\ IsEmptySession(r.s)

\* A session with a pipeline, a task, both pointers set and a full undo stack
C7_Witness ==
    /\ DOMAIN sess.pipelines # {} /\ DOMAIN sess.tasks # {}
    /\ sess.currentPipeline # Nil /\ sess.currentTask # Nil
    /\ Len(sess.PastActions) = MaxUndo
    /\ IsEmptySession(Try(ResetLine, Quiet).s)

\* The reversal closures a command invoked
Reverted(r) == {r.calls[i] : i \in {j \in 1..Len(r.calls) : r.calls[j][1] = "revert"}}

\* C8: reset invokes no reversal action; undo right after reset invokes
\* none and changes nothing; and after reset and two successful mutating
\* commands, the first two undos invoke the reversal actions of those two
\* commands, the most recent first, and a third undo invokes none and
\* changes nothing.  (The session after reset does not depend on the loop's
\* locals, so the commands after it are tried once per session.)
C8_ResetHardWipe ==
    \A r0 \in {Try(ResetLine, Quiet)} :
        /\ r0.calls = << >>
        /\ ThenUndo(r0).calls = << >> /\ ThenUndo(r0).s = r0.s
        /\ (activeWhenClause = << >> /\ prevResult = NilResult) =>
           \A c1 \in MutatingCmds, c2 \in MutatingCmds :
            \A r1 \in {Step(c1, r0.s, r0.result, << >>, Quiet)} :
                \A r2 \in {Step(c2, r1.s, r1.result, << >>, Quiet)} :
                    (r1.err = NoErr /\ r2.err = NoErr) =>
                        \A u1 \in {ThenUndo(r2)} :
                            \A u2 \in {ThenUndo(u1)} :
                                /\ Reverted(u1) = {<<"revert", r2.s.PastActions[2]>>}
                                /\ Reverted(u2) = {<<"revert", r2.s.PastActions[1]>>}
                                /\ ThenUndo(u2).calls = << >>
                                /\ ThenUndo(u2).s = u2.s

\* A session with a full stack of pending reversal actions, none of which
\* reset invokes
C8_Witness ==
    /\ Len(sess.PastActions) = MaxUndo
    /\ sess.currentTask # Nil
    /\ Try(ResetLine, Quiet).calls = << >>
    /\ Try(UndoLine, Quiet).calls # << >>

\* C9: a successful pipeline create or pipeline select leaves currentPipeline
\* set and currentTask empty.
C9_PipelineClearsTask ==
    \A n \in Names :
        \A c \in {Create("pipeline", n), Select("pipeline", n)} :
            \A r \in {Try(c, Quiet)} :
                r.err = NoErr => r.s.currentPipeline # Nil /\ r.s.currentTask = Nil

\* A session with a current task in which a pipeline select and a pipeline
\* create both succeed
C9_Witness ==
    /\ sess.currentTask # Nil
    /\ \E n \in Names : Try(Select("pipeline", n), Quiet).err = NoErr
    /\ \E n \in Names : Try(Create("pipeline", n), Quiet).err = NoErr

\* C10: select of an existing name sets that kind's current pointer to the
\* stored entity and returns it; select of a missing name fails with 'not
\* found' and leaves both pointers as they were; task select leaves
\* currentPipeline as it was; no select changes the undo stack.
C10_Select ==
    \A n \in Names :
        \A p \in {Try(Select("pipeline", n), Quiet)} :
            \A t \in {Try(Select("task", n), Quiet)} :
                /\ p.s.PastActions = sess.PastActions
                /\ t.s.PastActions = sess.PastActions
                /\ t.s.currentPipeline = sess.currentPipeline
                /\ IF n \in DOMAIN sess.pipelines
                   THEN /\ p.err = NoErr
                        /\ p.s.currentPipeline = sess.pipelines[n]
                        /\ p.result = PipelineResult(sess.pipelines[n])
                        /\ p.s.pobj[sess.pipelines[n]].Name = n
                   ELSE /\ p.err = "not found"
                        /\ p.s.currentPipeline = sess.currentPipeline
                        /\ p.s.currentTask = sess.currentTask
                /\ IF n \in DOMAIN sess.tasks
                   THEN /\ t.err = NoErr
                        /\ t.s.currentTask = sess.tasks[n]
                        /\ t.result = TaskResult(sess.tasks[n])
                        /\ t.s.tobj[sess.tasks[n]].Name = n
                   ELSE /\ t.err = "not found"
                        /\ t.s.currentPipeline = sess.currentPipeline
                        /\ t.s.currentTask = sess.currentTask

\* A session with a current pipeline, a stored task and no current task
\* (pipeline select cleared it), where task select sets the current task and
\* keeps the pipeline, and a select of a missing pipeline fails
C10_Witness ==
    /\ sess.currentPipeline # Nil /\ sess.currentTask = Nil
    /\ \E n \in DOMAIN sess.tasks :
          /\ Try(Select("task", n), Quiet).s.currentTask = sess.tasks[n]
          /\ Try(Select("task", n), Quiet).s.currentPipeline = sess.currentPipeline
    /\ \E n \in Names : Try(Select("pipeline", n), Quiet).err = "not found"

\* The line  pipeline create P | task create T | step add S --image I
Chain(P, T, S, I) ==
    <<CmdSeg(Create("pipeline", P), Quiet), CmdSeg(Create("task", T), Quiet),
      CmdSeg(Cmd("step", "add", <<S, ImageFlag, I>>, Empty), Quiet)>>

\* Session s holds exactly pipeline P with the one edge T -> T and exactly
\* task T with the one step {S, I, ""}, and both are current
ChainDone(s, P, T, S, I) ==
    /\ DOMAIN s.pipelines = {P} /\ DOMAIN s.tasks = {T}
    /\ s.currentPipeline = s.pipelines[P] /\ s.currentTask = s.tasks[T]
    /\ s.pobj[s.pipelines[P]].Name = P
    /\ Len(s.pobj[s.pipelines[P]].Tasks) = 1
    /\ s.pobj[s.pipelines[P]].Tasks[1].Name = T
    /\ s.pobj[s.pipelines[P]].Tasks[1].TaskRef = T
    /\ s.tobj[s.tasks[T]].Name = T
    /\ s.tobj[s.tasks[T]].Steps = <<[Name |-> S, Image |-> I, Script |-> Empty]>>

\* C11: on an empty session the line  pipeline create P | task create T |
\* step add S --image I  leaves exactly one pipeline P with the single edge
\* T referencing T, exactly one task T with the single step {S, I, empty
\* script}, currentPipeline = P and currentTask = T.
C11_PipeChain ==
    IsEmptySession(sess) =>
        \A P \in PipelineNames, T \in TaskNames, S \in StepNames, I \in Images :
            ChainDone(executor(Chain(P, T, S, I), sess), P, T, S, I)

\* An empty session, reached again after commands were typed, on which the
\* chain builds the pipeline, the task and the step
C11_Witness ==
    /\ IsEmptySession(sess)
    /\ prevResult # NilResult
    /\ \E P \in PipelineNames, T \in TaskNames, S \in StepNames, I \in Images :
          /\ ChainDone(executor(Chain(P, T, S, I), sess), P, T, S, I)
          /\ Len(executor(Chain(P, T, S, I), sess).PastActions) = 3

(* ---------------------------------------------------------------------- *)
(* One task, its params and its steps: the sessions reached by            *)
(*   task create a | param ... | param ...                                *)
(* and the commands typed from there.  Param defaults here may themselves *)
(* hold parameter references.                                             *)
(* ---------------------------------------------------------------------- *)
\* Most steps a task is given, and longest undo stack explored
MaxSteps == 2
MaxTaskUndo == 4

\* The token $(params.<name>) as it is typed
RefTo(name) == <<"$(params.">> \o name \o <<")">>

TaskDefaults == {<<"x">>, RefTo(<<"w">>)}

\* Image tokens: plain, one reference, two references, a reference to the
\* longer name vw, a reference wrapped around a reference
TaskTexts ==
    {<<"x">>, RefTo(<<"v">>), RefTo(<<"w">>),
     RefTo(<<"v">>) \o <<"x">> \o RefTo(<<"v">>),
     RefTo(<<"v", "w">>),
     RefTo(RefTo(<<"v">>))}

\* The image tokens typed; the others are tried in every state reached
TaskImages == {RefTo(<<"w">>), RefTo(<<"v", "w">>)}

ParamLine(n, d) == Cmd("param", "", <<n \o <<"=">>, d>>, Empty)
StepLine(img, sc) == Cmd("step", "add", <<<<"a">>, ImageFlag, img>>, sc)

\* The lines  param n1= d1 | param n2= d2  with n1 # n2, and their prefixes
TaskParamLines ==
    {<< >>}
    \cup {<<CmdSeg(ParamLine(n, d), Quiet)>> : n \in ParamNames, d \in TaskDefaults}
    \cup {<<CmdSeg(ParamLine(l[1], l[2]), Quiet), CmdSeg(ParamLine(l[3], l[4]), Quiet)>> :
             l \in {q \in ParamNames \X TaskDefaults \X ParamNames \X TaskDefaults :
                       q[1] # q[3]}}

InitTask ==
    /\ \E ps \in TaskParamLines :
          sess = executor(<<CmdSeg(Create("task", <<"a">>), Quiet)>> \o ps, NewSession)
    /\ activeWhenClause = << >>
    /\ prevResult = NilResult

TaskDispatch(baseCmd) ==
    \E loc \in {LoopBody(CmdSeg(baseCmd, Quiet), Here)} :
        /\ Len(loc.sess.PastActions) <= MaxTaskUndo
        /\ \A o \in DOMAIN loc.sess.tobj : Len(loc.sess.tobj[o].Steps) <= MaxSteps
        /\ Becomes(loc)

TaskStepAddCmd ==
    \E img \in TaskImages, sc \in Scripts :
        /\ TaskDispatch(StepLine(img, sc))
TaskParamCmd ==
    \E n \in ParamNames, d \in TaskDefaults :
        /\ TaskDispatch(ParamLine(n, d))
TaskUndoCmd ==
    /\ TaskDispatch(UndoLine)
TaskOtherCmd ==
    \E c \in BaseCmds \ (StepAddCmds \cup ParamCmds \cup UndoCmds \cup PipelineCreateCmds) :
        /\ TaskDispatch(c)

NextTask ==
    \/ TaskStepAddCmd
    \/ TaskParamCmd
    \/ TaskUndoCmd
    \/ TaskOtherCmd

SpecTask == InitTask /\ [][NextTask]_vars

\* The params and steps of the current task of session s
ParamsOf(s) == s.tobj[s.currentTask].Params
StepsOf(s) == s.tobj[s.currentTask].Steps
LastStep(s) == StepsOf(s)[Len(StepsOf(s))]

\* text with every occurrence of $(params.<name>), <name> a param of the
\* list, replaced by that param's default value: the occurrences are those
\* of text itself, found left to right
RECURSIVE Substituted(_, _)
Substituted(text, params) ==
    IF text = << >> THEN << >>
    ELSE LET hits == {i \in 1..Len(params) : HasPrefix(text, RefTo(params[i].Name))}
         IN IF hits = {} THEN <<Head(text)>> \o Substituted(Tail(text), params)
            ELSE LET i == CHOOSE h \in hits : \A k \in hits : h <= k
                 IN params[i].Default
                    \o Substituted(SubSeq(text, Len(RefTo(params[i].Name)) + 1, Len(text)),
                                   params)

\* C12: a step add that succeeds stores, as the new step's image and script,
\* the image token and the script text with every occurrence of
\* $(params.<name>) replaced by the default of the current task's param
\* <name>, the param list being the one the task has when step add runs.
C12_InterpolationAtStepAdd ==
    sess.currentTask # Nil =>
        \A img \in TaskTexts, sc \in Scripts :
            \A r \in {Try(StepLine(img, sc), Quiet)} :
                r.err = NoErr =>
                    /\ Len(StepsOf(r.s)) = Len(StepsOf(sess)) + 1
                    /\ LastStep(r.s) =
                          [Name |-> <<"a">>,
                           Image |-> Substituted(img, ParamsOf(sess)),
                           Script |-> Substituted(
                                        IF Quoted(sc, BQuote) THEN StripEnds(sc) ELSE sc,
                                        ParamsOf(sess))]

\* The param list of the current task is [a with default $(params.b), b
\* with default x], in either order
Nested(a, b) ==
    /\ sess.currentTask # Nil
    /\ Len(ParamsOf(sess)) = 2
    /\ {ParamsOf(sess)[1], ParamsOf(sess)[2]} =
          {[Name |-> a, Default |-> RefTo(b)], [Name |-> b, Default |-> <<"x">>]}

\* C14: with the param list [a with default $(params.b), b with default x],
\* in either order, a step added with image $(params.a) gets the image
\* $(params.b): the inserted default is not scanned for references.
C14_SinglePass ==
    \A a \in ParamNames, b \in ParamNames :
        (a # b /\ Nested(a, b)) =>
            \A r \in {Try(StepLine(RefTo(a), Empty), Quiet)} :
                r.err = NoErr /\ LastStep(r.s).Image = RefTo(b)

\* text holds an occurrence of $(params.<name>) for a param of the list
Occurs(text, params) ==
    \E i \in 1..Len(params) : Contains(text, RefTo(params[i].Name))

\* C15: a text that holds no occurrence of $(params.<name>) for any param
\* of the current task's list is stored by step add exactly as it is, as
\* image and as script.
C15_IdempotentInterpolation ==
    sess.currentTask # Nil =>
        \A img \in TaskTexts, sc \in Scripts :
            \A r \in {Try(StepLine(img, sc), Quiet)} :
                /\ r.err = NoErr
                /\ ~Occurs(img, ParamsOf(sess)) => LastStep(r.s).Image = img
                /\ ~Occurs(sc, ParamsOf(sess)) =>
                      LastStep(r.s).Script = (IF Quoted(sc, BQuote) THEN StripEnds(sc) ELSE sc)

\* A task with the params v and w whose stored step kept the image
\* $(params.vw), a reference to neither
C15_Witness ==
    /\ sess.currentTask # Nil
    /\ Len(ParamsOf(sess)) = 2
    /\ Len(StepsOf(sess)) > 0
    /\ LastStep(sess).Image = RefTo(<<"v", "w">>)
    /\ ~Occurs(LastStep(sess).Image, ParamsOf(sess))

\* C13: a command leaves the steps of every task it keeps as they were,
\* except that step add appends one step to them and that the undo of a
\* step add, the reversal on top of the stack, removes the last one; so a
\* param, or the undo of a param, changes no stored image and no stored
\* script.
C13_SnapshotSemantics ==
    [][\A n \in DOMAIN sess.tasks \cap DOMAIN sess'.tasks :
          LET old == sess.tobj[sess.tasks[n]].Steps
              new == sess'.tobj[sess'.tasks[n]].Steps
          IN \/ new = old
             \/ /\ Len(new) = Len(old) + 1
                /\ SubSeq(new, 1, Len(old)) = old
                /\ Len(sess'.PastActions) = Len(sess.PastActions) + 1
                /\ sess'.PastActions[Len(sess'.PastActions)].kind = "step add"
             \/ /\ Len(new) = Len(old) - 1
                /\ new = SubSeq(old, 1, Len(new))
                /\ sess.PastActions # << >>
                /\ sess.PastActions[Len(sess.PastActions)].kind = "step add"
                /\ sess.PastActions[Len(sess.PastActions)].taskNameForUndo = n
                /\ sess'.PastActions = SubSeq(sess.PastActions, 1, Len(sess.PastActions) - 1)
      ]_vars

\* A task whose stored step still reads $(params.w) although the task has
\* the param w by now: the param was set after the step was added
C13_Witness ==
    /\ sess.currentTask # Nil
    /\ Len(StepsOf(sess)) > 0
    /\ LastStep(sess).Image = RefTo(<<"w">>)
    /\ Occurs(LastStep(sess).Image, ParamsOf(sess))
    /\ sess.PastActions # << >>
    /\ sess.PastActions[Len(sess.PastActions)].kind = "param"

\* Answers of the outside world under which a command fails or succeeds
FailExts == {Quiet, [Quiet EXCEPT !.bad = AllBad], [Quiet EXCEPT !.runErr = TRUE]}

\* C16: when a command of a piped line fails, the segments after it are
\* still dispatched, in order, on the session the failed command left, with
\* a nil previous result and no when clause: the line  c1 | c2 | c3  with c1
\* failing ends as the line  c2 | c3  does.  On a session without pipeline
\* p,  pipeline create p | pipeline create p | task create t  creates t and
\* appends its edge to p.  (A line starts with nil locals, so the lines are
\* tried in the states where the locals are nil.)
C16_ErrorContinuation ==
    (activeWhenClause = << >> /\ prevResult = NilResult) =>
    /\ \A c1 \in BaseCmds :
          \A x \in FailExts :
              \A r \in {Try(c1, x)} :
                  r.err # NoErr =>
                      \A c2 \in TaskCreateCmds, c3 \in {UndoLine, StepLine(<<"x">>, Empty)} :
                          Loop(<<CmdSeg(c1, x), CmdSeg(c2, Quiet), CmdSeg(c3, Quiet)>>, Here)
                          = LoopBody(CmdSeg(c3, Quiet),
                                LoopBody(CmdSeg(c2, Quiet), Locals(r.s, NilResult, << >>)))
    /\ \A p \in PipelineNames \ DOMAIN sess.pipelines, n \in TaskNames \ DOMAIN sess.tasks :
          LET s == executor(<<CmdSeg(Create("pipeline", p), Quiet),
                              CmdSeg(Create("pipeline", p), Quiet),
                              CmdSeg(Create("task", n), Quiet)>>, sess)
          IN /\ n \in DOMAIN s.tasks
             /\ s.currentTask = s.tasks[n]
             /\ s.pobj[s.pipelines[p]].Tasks =
                   <<[Name |-> n, TaskRef |-> n, When |-> << >>]>>

\* A session, with a pipeline and a task current, on which the second
\* pipeline create of  pipeline create p | pipeline create p | task create t
\* fails and t is created all the same
C16_Witness ==
    /\ activeWhenClause = << >> /\ prevResult = NilResult
    /\ sess.currentPipeline # Nil /\ sess.currentTask # Nil
    /\ \E p \in PipelineNames \ DOMAIN sess.pipelines, n \in TaskNames \ DOMAIN sess.tasks :
          /\ Step(Create("pipeline", p), Try(Create("pipeline", p), Quiet).s,
                  NilResult, << >>, Quiet).err = "already exists"
          /\ n \in DOMAIN executor(<<CmdSeg(Create("pipeline", p), Quiet),
                                     CmdSeg(Create("pipeline", p), Quiet),
                                     CmdSeg(Create("task", n), Quiet)>>, sess).tasks

\* C17: the undo stack grows by exactly one entry on a successful pipeline
\* create, task create, param and step add, loses exactly its top entry on
\* an undo with a non-empty stack, is empty after reset, and is left as it
\* was by every other command and by every command that fails.
C17_PushWithMutation ==
    \A c \in BaseCmds :
        \A x \in ExtsFor(c) :
            \A r \in {Try(c, x)} :
                LET before == Len(sess.PastActions)
                    after == Len(r.s.PastActions)
                IN IF r.err # NoErr THEN r.s.PastActions = sess.PastActions
                   ELSE IF c \in MutatingCmds
                   THEN after = before + 1
                        /\ SubSeq(r.s.PastActions, 1, before) = sess.PastActions
                   ELSE IF c.Kind = "undo" /\ before > 0
                   THEN after = before - 1
                        /\ r.s.PastActions = SubSeq(sess.PastActions, 1, before - 1)
                   ELSE IF c.Kind = "reset" THEN after = 0
                   ELSE r.s.PastActions = sess.PastActions

\* A session with pending reversal actions and a current task, in which a
\* param, a step add, an undo and a reset succeed, a select and a list
\* succeed, and a task create fails
C17_Witness ==
    /\ Len(sess.PastActions) = MaxUndo /\ sess.currentTask # Nil
    /\ \E c \in ParamCmds : Len(Try(c, Quiet).s.PastActions) = MaxUndo + 1
    /\ \E c \in StepAddCmds : Len(Try(c, Quiet).s.PastActions) = MaxUndo + 1
    /\ Len(Try(UndoLine, Quiet).s.PastActions) = MaxUndo - 1
    /\ Try(ResetLine, Quiet).s.PastActions = << >>
    /\ \E c \in TaskSelectCmds : Try(c, Quiet).err = NoErr
    /\ \E c \in TaskCreateCmds : Try(c, Quiet).err = "already exists"

\* C18: an undo on a non-empty stack invokes exactly one reversal action,
\* the one on top, and leaves on the stack exactly the entries that were
\* below it, so the action invoked is no longer held; no other command, and
\* no undo that fails, invokes a reversal action.  Every entry of the stack
\* is thus one that was never invoked.
C18_NoReplay ==
    \A c \in BaseCmds :
        \A x \in ExtsFor(c) :
            \A r \in {Try(c, x)} :
                IF c.Kind = "undo" /\ r.err = NoErr /\ sess.PastActions # << >>
                THEN /\ r.calls = <<<<"revert", sess.PastActions[Len(sess.PastActions)]>>>>
                     /\ r.s.PastActions =
                           SubSeq(sess.PastActions, 1, Len(sess.PastActions) - 1)
                ELSE Reverted(r) = {}

\* A session with one pending reversal action: undo invokes it, and the
\* undo after that finds nothing to invoke
C18_Witness ==
    /\ Len(sess.PastActions) = 1
    /\ DOMAIN sess.tasks # {}
    /\ Reverted(Try(UndoLine, Quiet)) = {<<"revert", sess.PastActions[1]>>}
    /\ ThenUndo(Try(UndoLine, Quiet)).calls = << >>

\* C19: undo on an empty undo stack returns no error and no result, invokes
\* nothing and leaves the session (pipelines, tasks, currentPipeline,
\* currentTask and the empty stack) as it was.
C19_UndoEmptyStack ==
    sess.PastActions = << >> =>
        \A r \in {Try(UndoLine, Quiet)} :
            /\ r.err = NoErr /\ r.result = NilResult /\ r.calls = << >>
            /\ r.s = sess

\* An empty undo stack met by an undo in the middle of a line: a when
\* clause is active and the command before returned a list
C19_Witness ==
    /\ sess.PastActions = << >>
    /\ activeWhenClause # << >> /\ prevResult.type = "strings"
    /\ Try(UndoLine, Quiet).err = NoErr
    /\ Try(UndoLine, Quiet).s = sess

\* C20: in every reachable state, every edge of every pipeline has a
\* taskRef that names a task present in tasks.
C20_NoDanglingRefs ==
    \A p \in DOMAIN sess.pipelines :
        \A i \in 1..Len(sess.pobj[sess.pipelines[p]].Tasks) :
            sess.pobj[sess.pipelines[p]].Tasks[i].TaskRef \in DOMAIN sess.tasks

\* C21: in every reachable state every key of pipelines and of tasks is a
\* non-empty name and is the name of the entity stored under it; a key cannot
\* occur twice in its map.
C21_NonEmptyKeys ==
    /\ \A n \in DOMAIN sess.pipelines :
          n # Empty /\ sess.pobj[sess.pipelines[n]].Name = n
    /\ \A n \in DOMAIN sess.tasks :
          n # Empty /\ sess.tobj[sess.tasks[n]].Name = n

\* The commands that are neither export, apply nor validate
UngatedCmds == BaseCmds \ (ExportCmds \cup ApplyCmds \cup ValidateCmds)

\* C22: whenever the validator rejects an entity of the session, export all
\* and apply all <ns> return 'validation failed', call the validator only
\* (neither the exporter nor the applier) and leave the session as it was;
\* every other command returns the same result, the same session and makes
\* the same calls as it does when the validator accepts everything.
C22_ValidationGate ==
    \A b \in Verdicts :
        ValidateSession(sess, b) # {} =>
            /\ \A e \in {x \in Exts : x.bad = NoneBad} :
                  \A c \in {Cmd("export", "all", << >>, Empty)}
                           \cup {Cmd("apply", "all", <<ns>>, Empty) : ns \in Namespaces} :
                      \A r \in {Try(c, [e EXCEPT !.bad = b])} :
                          /\ r.err = "validation failed"
                          /\ r.calls = <<<<"ValidateSession">>>>
                          /\ r.s = sess
            /\ \A c \in UngatedCmds, e \in BOOLEAN :
                  Try(c, [Quiet EXCEPT !.bad = b, !.runErr = e])
                  = Try(c, [Quiet EXCEPT !.runErr = e])

\* A session holding a pipeline and a task that the validator rejects, in
\* which export all is refused and a param command still succeeds
C22_Witness ==
    /\ sess.currentPipeline # Nil /\ sess.currentTask # Nil
    /\ {<<"pipeline", <<"a">>>>, <<"task", <<"b">>>>} \subseteq ValidateSession(sess, AllBad)
    /\ Try(Cmd("export", "all", << >>, Empty), [Quiet EXCEPT !.bad = AllBad]).err
       = "validation failed"
    /\ Try(Cmd("param", "", <<<<"v", "=">>, <<"x">>>>, Empty),
           [Quiet EXCEPT !.bad = AllBad]).err = NoErr

\* l lists exactly the strings of keys, each once, in ascending byte order
IsSortedListing(l, keys) ==
    /\ Len(l) = Cardinality(keys)
    /\ {l[i] : i \in 1..Len(l)} = keys
    /\ \A i \in 1..Len(l), j \in 1..Len(l) : i < j => StrLess(l[i], l[j])

\* What list act returns now
Listing(act) == Try(Cmd("list", act, << >>, Empty), Quiet)

\* C23: list tasks and list pipelines succeed, leave the session alone and
\* return exactly the keys of the tasks map, resp. the pipelines map, in
\* ascending lexicographic order, whatever the order of creation; on an
\* empty map they return the one placeholder message, and list stepactions
\* always returns its not-implemented message.
C23_ListSorted ==
    /\ \A r \in {Listing("tasks")} :
          /\ r.err = NoErr /\ r.s = sess
          /\ IF DOMAIN sess.tasks = {}
             THEN r.result = StringsResult(<<"No tasks defined.">>)
             ELSE \E l \in {r.result.val} :
                      r.result = StringsResult(l) /\ IsSortedListing(l, DOMAIN sess.tasks)
    /\ \A r \in {Listing("pipelines")} :
          /\ r.err = NoErr /\ r.s = sess
          /\ IF DOMAIN sess.pipelines = {}
             THEN r.result = StringsResult(<<"No pipelines defined.">>)
             ELSE \E l \in {r.result.val} :
                      r.result = StringsResult(l) /\ IsSortedListing(l, DOMAIN sess.pipelines)
    /\ \A r \in {Listing("stepactions")} :
          /\ r.err = NoErr /\ r.s = sess
          /\ r.result = StringsResult(<<"list stepactions is not implemented yet">>)

\* Two tasks of which b was created before a, and no pipeline: list tasks
\* has two names to put in order and list pipelines has none
C23_Witness ==
    /\ DOMAIN sess.tasks = {<<"a">>, <<"b">>}
    /\ sess.tasks[<<"b">>] < sess.tasks[<<"a">>]
    /\ DOMAIN sess.pipelines = {}
    /\ Listing("tasks").result = StringsResult(<<<<"a">>, <<"b">>>>)
    /\ Listing("pipelines").result = StringsResult(<<"No pipelines defined.">>)

\* param name= value, as typed
ParamSet(name, value) == Cmd("param", "", <<name \o <<"=">>, value>>, Empty)

\* No two params of the list have the same name
DistinctParamNames(params) ==
    \A i \in 1..Len(params), j \in 1..Len(params) :
        params[i].Name = params[j].Name => i = j

\* after is before with param name of the current task t set to value: in
\* place when the name was there, appended at the end when it was not; the
\* task keeps its other fields, and the pipelines, the other tasks, the maps
\* and the current entities are as before
Upserted(before, after, name, value) ==
    LET t == before.currentTask
        old == before.tobj[t].Params
        new == after.tobj[t].Params
        at == {i \in 1..Len(old) : old[i].Name = name}
    IN /\ IF at = {}
          THEN new = Append(old, [Name |-> name, Default |-> value])
          ELSE /\ Len(new) = Len(old)
               /\ \A i \in 1..Len(old) :
                     /\ new[i].Name = old[i].Name
                     /\ new[i].Default = IF i \in at THEN value ELSE old[i].Default
       /\ after.tobj = [before.tobj EXCEPT ![t].Params = new]
       /\ after.pobj = before.pobj
       /\ after.pipelines = before.pipelines /\ after.tasks = before.tasks
       /\ after.currentPipeline = before.currentPipeline
       /\ after.currentTask = before.currentTask
       /\ DistinctParamNames(new)

\* C24: with a current task, param name= value succeeds as an upsert on that
\* task only: an existing param of that name has its default overwritten in
\* place, length and order of the list unchanged, otherwise the param is
\* appended at the end; no task holds two params of one name, and no other
\* task and no pipeline is modified.  Checked over every three param
\* commands in a row from every reachable session.
C24_ParamUpsert ==
    /\ \A t \in DOMAIN sess.tobj : DistinctParamNames(sess.tobj[t].Params)
    /\ sess.currentTask # Nil =>
          \A n1 \in ParamNames, n2 \in ParamNames, n3 \in ParamNames :
              \A v1 \in ParamValues, v3 \in ParamValues :
                  \A r1 \in {Try(ParamSet(n1, v1), Quiet)} :
                      \A r2 \in {Step(ParamSet(n2, <<"x">>), r1.s, r1.result, << >>, Quiet)} :
                          \A r3 \in {Step(ParamSet(n3, v3), r2.s, r2.result, << >>, Quiet)} :
                              /\ r1.err = NoErr /\ Upserted(sess, r1.s, n1, v1)
                              /\ r2.err = NoErr /\ Upserted(r1.s, r2.s, n2, <<"x">>)
                              /\ r3.err = NoErr /\ Upserted(r2.s, r3.s, n3, v3)

\* A current task without params beside a pipeline that holds its edge:
\* param v= x, param w= x, param v= y in a row leave the list v= y, w= x
C24_Witness ==
    /\ sess.currentTask # Nil /\ sess.currentPipeline # Nil
    /\ sess.pobj[sess.currentPipeline].Tasks # << >>
    /\ sess.tobj[sess.currentTask].Params = << >>
    /\ \E r1 \in {Try(ParamSet(<<"v">>, <<"x">>), Quiet)} :
          \E r2 \in {Step(ParamSet(<<"w">>, <<"x">>), r1.s, r1.result, << >>, Quiet)} :
              \E r3 \in {Step(ParamSet(<<"v">>, <<"y">>), r2.s, r2.result, << >>, Quiet)} :
                  r3.s.tobj[sess.currentTask].Params
                  = <<[Name |-> <<"v">>, Default |-> <<"y">>],
                      [Name |-> <<"w">>, Default |-> <<"x">>]>>

\* The param commands without an action word, well formed or not, and the
\* step add commands
TaskScopedCmds == {c \in ParamCmds : c.Action = ""} \cup StepAddCmds

\* Every one of cmds, dispatched on session s, fails with 'no current task'
\* and leaves s as it is
Refused(cmds, s, prev) ==
    \A c \in cmds :
        \A r \in {Step(c, s, prev, << >>, Quiet)} :
            r.err = "no current task" /\ r.s = s

\* Refusal lasts from a successful pipeline create or pipeline select over
\* one more command, whatever it is, unless that command is one of allowed
RefusedUntil(allowed) ==
    \A c1 \in PipelineCreateCmds \cup PipelineSelectCmds :
        \A r1 \in {Try(c1, Quiet)} :
            r1.err = NoErr =>
                /\ r1.s.currentTask = Nil
                /\ Refused(TaskScopedCmds, r1.s, r1.result)
                /\ \A c2 \in BaseCmds \ allowed :
                      \A e \in ExtsFor(c2) :
                          \A r2 \in {Step(c2, r1.s, r1.result, << >>, e)} :
                              /\ r2.s.currentTask = Nil
                              /\ Refused({ParamSet(<<"v">>, <<"x">>),
                                          StepLine(<<"x">>, Empty)},
                                         r2.s, r2.result)

\* param and step add are refused whenever there is no current task, and so
\* on a fresh session
RefusedWithoutTask ==
    /\ Refused(TaskScopedCmds, NewSession, NilResult)
    /\ sess.currentTask = Nil => Refused(TaskScopedCmds, sess, prevResult)

\* C25 as stated: param and step add fail with 'no current task' and leave
\* the session unchanged whenever currentTask is empty: on a fresh session,
\* and from a successful pipeline create or pipeline select until a task
\* create or a task select succeeds.
C25_NoCurrentTask ==
    /\ RefusedWithoutTask
    /\ RefusedUntil(TaskCreateCmds \cup TaskSelectCmds)

\* C25 amended: as stated, but the refusal that follows a pipeline create
\* or pipeline select lasts until a task create or a task select succeeds or
\* an undo takes place; the undo of a pipeline create brings the previous
\* current task back.
C25_NoCurrentTaskUntilUndo ==
    /\ RefusedWithoutTask
    /\ RefusedUntil(TaskCreateCmds \cup TaskSelectCmds \cup UndoCmds)

\* A task, then a pipeline created after it: there is no current task,
\* param is refused, and undo makes the task current again so that param
\* succeeds
C25_Witness ==
    /\ sess.currentTask = Nil /\ sess.currentPipeline # Nil
    /\ DOMAIN sess.tasks # {}
    /\ Try(ParamSet(<<"v">>, <<"x">>), Quiet).err = "no current task"
    /\ Try(UndoLine, Quiet).s.currentTask # Nil
    /\ Step(ParamSet(<<"v">>, <<"x">>), Try(UndoLine, Quiet).s, NilResult, << >>,
            Quiet).err = NoErr

\* Argument lists that follow the name in a run command, each with what the
\* runner is to be given: wellFormed says whether every param and namespace
\* argument is complete; params and namespace are what was written
RunForm(rest, wellFormed, params, namespace) ==
    [rest |-> rest, wellFormed |-> wellFormed, params |-> params,
     namespace |-> namespace]
PArg(n, v) == <<<<"param">>, n \o <<"=">>, v>>
NsArg(ns) == <<<<"namespace">>, ns>>
RunForms ==
    {RunForm(<< >>, TRUE, << >>, <<"default">>),
     RunForm(NsArg(<<"a">>), TRUE, << >>, <<"a">>),
     RunForm(NsArg(<<"a">>) \o NsArg(<<"b">>), TRUE, << >>, <<"b">>),
     RunForm(PArg(<<"v">>, <<"x">>), TRUE,
             <<RunParam(<<"v">>, <<"x">>)>>, <<"default">>),
     RunForm(PArg(<<"v">>, <<"x">>) \o PArg(<<"w">>, <<"y">>), TRUE,
             <<RunParam(<<"v">>, <<"x">>), RunParam(<<"w">>, <<"y">>)>>, <<"default">>),
     RunForm(PArg(<<"w">>, <<"y">>) \o NsArg(<<"b">>) \o PArg(<<"v">>, <<"x">>)
                 \o NsArg(<<"a">>), TRUE,
             <<RunParam(<<"w">>, <<"y">>), RunParam(<<"v">>, <<"x">>)>>, <<"a">>),
     RunForm(PArg(<<"v">>, <<"x">>) \o PArg(<<"v">>, <<"y">>), TRUE,
             <<RunParam(<<"v">>, <<"x">>), RunParam(<<"v">>, <<"y">>)>>, <<"default">>),
     RunForm(<<<<"param">>, <<"v">>, <<"x">>>>, FALSE, << >>, << >>),
     RunForm(PArg(<<"v">>, <<"x">>) \o <<<<"param">>, <<"w">>, <<"y">>>>, FALSE,
             << >>, << >>),
     RunForm(NsArg(<<"a">>) \o <<<<"param">>>>, FALSE, << >>, << >>),
     RunForm(PArg(<<"v">>, <<"x">>) \o <<<<"param">>, <<"w">>>>, FALSE, << >>, << >>)}

\* kind run name rest...
RunLine(kind, name, rest) == Cmd(kind, "run", <<name>> \o rest, Empty)

\* C26: pipeline run N ... and task run N ... call the runner of their kind
\* exactly once, with N, the params in the order written and the namespace of
\* the last namespace argument, "default" when there is none; when N is not
\* a key of the map of that kind, or a param argument is malformed, the
\* command fails and the runner is not called; when the runner fails, the
\* command fails.
C26_Run ==
    \A kind \in {"pipeline", "task"}, name \in Names, f \in RunForms, e \in BOOLEAN :
        \A r \in {Try(RunLine(kind, name, f.rest), [Quiet EXCEPT !.runErr = e])} :
            IF name \in DOMAIN (IF kind = "pipeline" THEN sess.pipelines ELSE sess.tasks)
               /\ f.wellFormed
            THEN /\ r.calls = <<<<IF kind = "pipeline" THEN "RunPipeline" ELSE "RunTask",
                                  name, f.params, f.namespace>>>>
                 /\ (r.err # NoErr) <=> e
            ELSE r.err # NoErr /\ r.calls = << >>

\* A pipeline a and a task b: pipeline run a with two params around two
\* namespaces reaches the runner, task run a and a malformed param do not
C26_Witness ==
    /\ <<"a">> \in DOMAIN sess.pipelines
    /\ DOMAIN sess.tasks = {<<"b">>}
    /\ Try(RunLine("pipeline", <<"a">>,
                   PArg(<<"w">>, <<"y">>) \o NsArg(<<"b">>) \o PArg(<<"v">>, <<"x">>)
                   \o NsArg(<<"a">>)), Quiet).calls
       = <<<<"RunPipeline", <<"a">>,
             <<RunParam(<<"w">>, <<"y">>), RunParam(<<"v">>, <<"x">>)>>, <<"a">>>>>>
    /\ Try(RunLine("task", <<"a">>, << >>), Quiet).calls = << >>
    /\ Try(RunLine("task", <<"b">>, <<<<"param">>, <<"v">>, <<"x">>>>), Quiet).calls = << >>

\* What the cluster may answer: whether the client is obtained, and the
\* pipelines and tasks whose patch it refuses
PatchVerdicts ==
    [client : BOOLEAN, pipelines : SUBSET PipelineNames, tasks : SUBSET TaskNames]

\* The entities of the session, and those of them whose patch fails
Entities(s) ==
    {<<"pipeline", n>> : n \in DOMAIN s.pipelines} \cup {<<"task", n>> : n \in DOMAIN s.tasks}
FailedPatches(s, fails) ==
    {x \in Entities(s) : x[2] \in (IF x[1] = "pipeline" THEN fails.pipelines ELSE fails.tasks)}

\* apply all a, with a validator that accepts everything
ApplyLine(fails) ==
    Try(Cmd("apply", "all", <<<<"a">>>>, Empty), [Quiet EXCEPT !.fails = fails])

\* Under the verdicts fs: every entity is attempted, the failures reported
\* are exactly the patches that failed, and apply all fails exactly when
\* there is one
Aggregated(fs) ==
    \A fails \in fs :
        /\ \A r \in {ApplyAll(sess, <<"a">>, fails)} :
              /\ r.attempted = Entities(sess)
              /\ r.failed = FailedPatches(sess, fails)
        /\ \A r \in {ApplyLine(fails)} :
              /\ r.calls = <<<<"ValidateSession">>, <<"ApplyAll", <<"a">>, Entities(sess)>>>>
              /\ (r.err # NoErr) <=> (FailedPatches(sess, fails) # {})

\* C27 as stated: ApplyAll attempts the patch of every pipeline and every
\* task of the session, also after patches have failed, and returns an error
\* if and only if at least one patch failed, the error naming every entity
\* whose patch failed.
C27_ApplyAggregated == Aggregated(PatchVerdicts)

\* C27 amended: as stated when the cluster client is obtained; when it is
\* not, ApplyAll attempts no patch and returns an error.
C27_ApplyAggregatedWithClient ==
    /\ Aggregated({f \in PatchVerdicts : ~f.client})
    /\ \A fails \in {f \in PatchVerdicts : f.client} :
          /\ ApplyAll(sess, <<"a">>, fails).attempted = {}
          /\ ApplyAll(sess, <<"a">>, fails).failed # {}
          /\ ApplyLine(fails).err # NoErr

\* A pipeline and a task whose patches both fail: both are attempted and
\* both are reported
C27_Witness ==
    /\ <<"a">> \in DOMAIN sess.pipelines /\ <<"b">> \in DOMAIN sess.tasks
    /\ \E r \in {ApplyAll(sess, <<"a">>,
                          [client |-> FALSE, pipelines |-> {<<"a">>}, tasks |-> {<<"b">>}])} :
          /\ r.attempted = {<<"pipeline", <<"a">>>>, <<"task", <<"b">>>>}
          /\ r.failed = {<<"pipeline", <<"a">>>>, <<"task", <<"b">>>>}

\* The lines made of one or two of the commands cmds and one segment that
\* does not parse, at the end (a trailing pipe), in the middle or in front
BrokenLines(cmds) ==
    {<<CmdSeg(c, Quiet), BadSeg>> : c \in cmds}
    \cup {<<BadSeg, CmdSeg(c, Quiet)>> : c \in cmds}
    \cup {<<CmdSeg(c1, Quiet), CmdSeg(c2, Quiet), BadSeg>> : c1 \in cmds, c2 \in cmds}
    \cup {<<CmdSeg(c1, Quiet), BadSeg, CmdSeg(c2, Quiet)>> : c1 \in cmds, c2 \in cmds}

\* Commands that change a session when they are dispatched
ChangingCmds ==
    {Create("pipeline", <<"a">>), Create("task", <<"a">>), Create("task", <<"b">>),
     ParamSet(<<"v">>, <<"y">>), StepLine(<<"x">>, Empty), UndoLine, ResetLine,
     Select("pipeline", <<"a">>), Select("task", <<"b">>)}

\* C28: a line is parsed whole before any of its commands is dispatched:
\* when the line does not parse, as with a trailing pipe after valid
\* segments, no command of it is executed and the session, undo stack
\* included, is as before; a line that parses is executed.
C28_ParseBeforeDispatch ==
    /\ \A in \in BrokenLines(ChangingCmds) : executorOf(in, sess) = sess
    /\ \A c \in ChangingCmds :
          executorOf(<<CmdSeg(c, Quiet)>>, sess)
          = Step(c, sess, NilResult, << >>, Quiet).s

\* A session with a current task and a non-empty undo stack, on which undo,
\* a param and a reset would each change something: followed by a trailing
\* pipe they change nothing
C28_Witness ==
    /\ sess.currentTask # Nil /\ sess.PastActions # << >>
    /\ Try(UndoLine, Quiet).s # sess
    /\ Try(ParamSet(<<"v">>, <<"y">>), Quiet).s # sess
    /\ executorOf(<<CmdSeg(UndoLine, Quiet), BadSeg>>, sess) = sess
    /\ executorOf(<<CmdSeg(ParamSet(<<"v">>, <<"y">>), Quiet), CmdSeg(ResetLine, Quiet),
                    BadSeg>>, sess) = sess

\* Conditions L op x with op one of ==, != and <, an operator the engine
\* does not know, and the when clauses of one, two or three of them
Conditions ==
    {[Left |-> l, Operator |-> <<op>>, Right |-> <<"x">>] :
        l \in {<<"a">>, <<"b">>}, op \in {"==", "!=", "<"}}
ConditionLists ==
    {<<c>> : c \in Conditions}
    \cup {<<c1, c2>> : c1 \in Conditions, c2 \in Conditions}
    \cup {<<c1, c2, c3>> : c1 \in Conditions, c2 \in Conditions, c3 \in Conditions}

\* The when expressions that clause w is to leave on the edge
RECURSIVE Attached(_)
Attached(w) ==
    IF w = << >> THEN << >>
    ELSE (IF Head(w).Operator = <<"==">>
          THEN <<[Input |-> Head(w).Left, Operator |-> "in",
                  Values |-> <<Head(w).Right>>]>>
          ELSE IF Head(w).Operator = <<"!=">>
          THEN <<[Input |-> Head(w).Left, Operator |-> "notin",
                  Values |-> <<Head(w).Right>>]>>
          ELSE << >>)
         \o Attached(Tail(w))

\* C29: task create under a when clause attaches, for each condition with
\* operator ==, the expression input = left, operator 'in', values =
\* [right], and for each condition with != the same with 'notin'; a
\* condition with any other operator is skipped, the others are attached in
\* the order written, and the task create succeeds.
C29_OperatorSemantics ==
    \A n \in TaskNames \ DOMAIN sess.tasks, w \in ConditionLists :
        \A r \in {Step(Create("task", n), sess, prevResult, w, Quiet)} :
            /\ r.err = NoErr
            /\ n \in DOMAIN r.s.tasks
            /\ sess.currentPipeline # Nil => EdgeWhens(r.s, n) = {Attached(w)}

\* A pipeline holding an edge that a when clause with == was attached to,
\* and a task b not yet created: task create b under a == x, b < x, b != x
\* attaches the first and the third condition
C29_Witness ==
    /\ sess.currentPipeline # Nil
    /\ \E i \in 1..Len(sess.pobj[sess.currentPipeline].Tasks) :
          sess.pobj[sess.currentPipeline].Tasks[i].When
          = <<[Input |-> <<"a">>, Operator |-> "in", Values |-> <<<<"b">>>>]>>
    /\ <<"b">> \notin DOMAIN sess.tasks
    /\ EdgeWhens(Step(Create("task", <<"b">>), sess, prevResult,
                      <<[Left |-> <<"a">>, Operator |-> <<"==">>, Right |-> <<"x">>],
                        [Left |-> <<"b">>, Operator |-> <<"<">>, Right |-> <<"x">>],
                        [Left |-> <<"b">>, Operator |-> <<"!=">>, Right |-> <<"x">>]>>,
                      Quiet).s, <<"b">>)
       = {<<[Input |-> <<"a">>, Operator |-> "in", Values |-> <<<<"x">>>>],
            [Input |-> <<"b">>, Operator |-> "notin", Values |-> <<<<"x">>>>]>>}

\* A token that can name a step: no flag and no assignment
BareToken(arg) == ~HasPrefix(arg, Flag2) /\ ~Contains(arg, <<"=">>)

\* args hold a bare step name and, in another token, an image: the token
\* after --image, or the rest of a --image=X token
NameAndImage(args) ==
    \E i \in 1..Len(args), j \in 1..Len(args) :
        /\ i # j
        /\ BareToken(args[i])
        /\ \/ j > 1 /\ args[j - 1] = ImageFlag /\ args[j] # Empty
           \/ HasPrefix(args[j], ImageFlagEq) /\ args[j] # ImageFlagEq

\* C30: with a current task, step add succeeds only when its args hold a
\* bare step name and an --image value in another token; when the name or
\* the image is missing it fails, appends no step and pushes no undo action.
C30_StepAddArgs ==
    sess.currentTask # Nil =>
        \A c \in StepAddCmds :
            \A r \in {Try(c, Quiet)} :
                ~NameAndImage(c.Args) => r.err # NoErr /\ r.s = sess

\* after is the pipeline store before with one edge (name n, taskRef n) more
\* at the end of the task list of pipeline p, and nothing else changed
EdgeAppended(before, after, p, n) ==
    /\ DOMAIN after = DOMAIN before
    /\ \A q \in DOMAIN before \ {p} : after[q] = before[q]
    /\ after[p].Name = before[p].Name
    /\ Len(after[p].Tasks) = Len(before[p].Tasks) + 1
    /\ SubSeq(after[p].Tasks, 1, Len(before[p].Tasks)) = before[p].Tasks
    /\ after[p].Tasks[Len(after[p].Tasks)].Name = n
    /\ after[p].Tasks[Len(after[p].Tasks)].TaskRef = n

\* C31: a successful task create t, under any when clause, appends with a
\* current pipeline p exactly one edge (name t, taskRef t) at the end of p's
\* edge list and leaves p's earlier edges and every other pipeline as they
\* were; without a current pipeline it changes no pipeline, and the when
\* clause is attached nowhere.
C31_EdgeAppend ==
    \A n \in TaskNames, w \in WhenOpts :
        \A r \in {Step(Create("task", n), sess, prevResult, w, Quiet)} :
            r.err = NoErr =>
                /\ r.s.pipelines = sess.pipelines
                /\ IF sess.currentPipeline # Nil
                   THEN EdgeAppended(sess.pobj, r.s.pobj, sess.currentPipeline, n)
                   ELSE r.s.pobj = sess.pobj

\* What the tekton validator may say: the pipeline names and the task names
\* it rejects
ValidatorVerdicts == [pipelines : SUBSET PipelineNames, tasks : SUBSET TaskNames]

\* The entities of the session that verdict bad rejects
Invalid(s, bad) ==
    {x \in Entities(s) : x[2] \in (IF x[1] = "pipeline" THEN bad.pipelines ELSE bad.tasks)}

\* C32: validate looks at every pipeline and every task: the failures it
\* combines are exactly the invalid entities of the session, the command
\* fails when there is at least one, and it succeeds if and only if there is
\* none, as on an empty session; the session is left as it was.
C32_ValidateAggregated ==
    \A bad \in ValidatorVerdicts :
        /\ ValidateSession(sess, bad) = Invalid(sess, bad)
        /\ \A r \in {Try(Cmd("validate", "", << >>, Empty), [Quiet EXCEPT !.bad = bad])} :
              /\ r.calls = <<<<"ValidateSession">>>>
              /\ (r.err = NoErr) <=> (Invalid(sess, bad) = {})
              /\ Entities(sess) = {} => r.err = NoErr
              /\ r.s = sess

\* A pipeline and a task that are both invalid: both are reported and
\* validate fails; with the pipeline alone invalid it fails as well
C32_Witness ==
    /\ <<"a">> \in DOMAIN sess.pipelines /\ <<"b">> \in DOMAIN sess.tasks
    /\ ValidateSession(sess, [pipelines |-> {<<"a">>}, tasks |-> {<<"b">>}])
       = {<<"pipeline", <<"a">>>>, <<"task", <<"b">>>>}
    /\ Try(Cmd("validate", "", << >>, Empty),
           [Quiet EXCEPT !.bad = [pipelines |-> {<<"a">>}, tasks |-> {}]]).err
       = "validation failed"

\* list, show, validate, export, apply, pipeline run and task run, in all
\* the forms typed, well formed or not
ReadOnlyCmds ==
    ListCmds \cup ShowCmds \cup ValidateCmds \cup ExportCmds \cup ApplyCmds
    \cup PipelineRunCmds \cup TaskRunCmds

\* C33: list, show, validate, export all, apply all, pipeline run and task
\* run leave the pipelines, the tasks, the contents of every entity, the
\* current pipeline, the current task and the undo stack as they were,
\* whether they succeed or fail and whatever the validator, the exporter,
\* the cluster and the runner answer.
C33_ReadOnly ==
    \A c \in ReadOnlyCmds, e \in Exts :
        \A r \in {Try(c, e)} :
            /\ r.s.pipelines = sess.pipelines /\ r.s.tasks = sess.tasks
            /\ r.s.pobj = sess.pobj /\ r.s.tobj = sess.tobj
            /\ r.s.currentPipeline = sess.currentPipeline
            /\ r.s.currentTask = sess.currentTask
            /\ r.s.PastActions = sess.PastActions

\* Two tasks of which b is current, and a non-empty undo
\* stack: show task a succeeds, export all succeeds and task run b reaches
\* the runner
C33_Witness ==
    /\ DOMAIN sess.tasks = {<<"a">>, <<"b">>}
    /\ sess.currentTask = sess.tasks[<<"b">>]
    /\ sess.PastActions # << >>
    /\ Try(Cmd("show", "task", <<<<"a">>>>, Empty), Quiet).err = NoErr
    /\ Try(Cmd("export", "all", << >>, Empty), Quiet).err = NoErr
    /\ Try(Cmd("task", "run", <<<<"b">>>>, Empty), Quiet).calls # << >>

\* The lines of no command, of one of the commands cmds, and of pipeline
\* create a followed by one of them
ShortLines(cmds) ==
    {<< >>} \cup {<<CmdSeg(c, Quiet)>> : c \in cmds}
    \cup {<<CmdSeg(Create("pipeline", <<"a">>), Quiet), CmdSeg(c, Quiet)>> : c \in cmds}

PointersHeld(s) ==
    /\ s.currentPipeline # Nil =>
          /\ s.pobj[s.currentPipeline].Name \in DOMAIN s.pipelines
          /\ s.pipelines[s.pobj[s.currentPipeline].Name] = s.currentPipeline
    /\ s.currentTask # Nil =>
          /\ s.tobj[s.currentTask].Name \in DOMAIN s.tasks
          /\ s.tasks[s.tobj[s.currentTask].Name] = s.currentTask

\* C35: in every reachable state currentPipeline is empty or the very
\* entity stored in pipelines under its name, and currentTask is empty or
\* the very entity stored in tasks under its name; and so after one more
\* command of any kind.
C35_PointersNeverDangle ==
    /\ PointersHeld(sess)
    /\ \A c \in BaseCmds : PointersHeld(Try(c, Quiet).s)


\* Two tasks, the one created last current and its creation on top of the
\* undo stack: undo deletes it and makes the other task current again
C35_Witness ==
    /\ Cardinality(DOMAIN sess.tasks) = 2
    /\ sess.currentTask # Nil
    /\ sess.PastActions # << >>
    /\ sess.PastActions[Len(sess.PastActions)].kind = "task create"
    /\ sess.PastActions[Len(sess.PastActions)].name = sess.tobj[sess.currentTask].Name
    /\ \E r \in {Try(UndoLine, Quiet)} :
          /\ Cardinality(DOMAIN r.s.tasks) = 1
          /\ r.s.currentTask # Nil
          /\ r.s.tasks[r.s.tobj[r.s.currentTask].Name] = r.s.currentTask

\* The session after undo has been issued until the undo stack is empty
RECURSIVE UndoAll(_)
UndoAll(s) ==
    IF s.PastActions = << >> THEN s
    ELSE UndoAll(Step(UndoLine, s, NilResult, << >>, Quiet).s)

\* No pipeline, no task, no current pipeline and no current task
Vacated(s) ==
    /\ DOMAIN s.pipelines = {} /\ DOMAIN s.tasks = {}
    /\ s.currentPipeline = Nil /\ s.currentTask = Nil

\* C36: from the empty session, after any sequence of creates, params, step
\* adds, pipeline and task selects and failing commands, undo issued until
\* the undo stack is empty leaves no pipeline, no task, no current pipeline
\* and no current task.  Checked in every reachable state and after one
\* more command other than reset.
C36_FullWalkBack ==
    /\ Vacated(UndoAll(sess))
    /\ \A c \in BaseCmds \ ResetCmds : Vacated(UndoAll(Try(c, Quiet).s))

\* Two pipelines of which the one created first was selected again, both
\* creations on the undo stack: undoing both vacates the session
C36_Witness ==
    /\ Cardinality(DOMAIN sess.pipelines) = 2
    /\ Len(sess.PastActions) = 2
    /\ sess.PastActions[2].kind = "pipeline create"
    /\ sess.currentPipeline # Nil
    /\ sess.pobj[sess.currentPipeline].Name = sess.PastActions[1].name
    /\ Vacated(UndoAll(sess))

\* What undo does to the current pointers of session s when the action on
\* top of its undo stack is that of a create: the created entity is deleted;
\* the pointers captured at creation are restored when the created entity
\* is the current one, and the pointers are left alone when it is not
CreateUndone(s) ==
    s.PastActions # << >> =>
        \A c \in {s.PastActions[Len(s.PastActions)]} :
            \A r \in {Step(UndoLine, s, NilResult, << >>, Quiet)} :
                /\ c.kind = "pipeline create" =>
                      /\ c.name \notin DOMAIN r.s.pipelines
                      /\ IF s.currentPipeline # Nil
                            /\ s.pobj[s.currentPipeline].Name = c.name
                         THEN /\ r.s.currentPipeline = c.prevCurrentPipeline
                              /\ r.s.currentTask = c.prevCurrentTask
                         ELSE /\ r.s.currentPipeline = s.currentPipeline
                              /\ r.s.currentTask = s.currentTask
                /\ c.kind = "task create" =>
                      /\ c.name \notin DOMAIN r.s.tasks
                      /\ r.s.currentPipeline = s.currentPipeline
                      /\ IF s.currentTask # Nil /\ s.tobj[s.currentTask].Name = c.name
                         THEN r.s.currentTask = c.prevCurrentTask
                         ELSE r.s.currentTask = s.currentTask

\* pipeline create a, pipeline create b, pipeline select a, undo, each on
\* a line of its own, from the empty session
SelectThenUndo ==
    Lines(<<<<CmdSeg(Create("pipeline", <<"a">>), Quiet)>>,
            <<CmdSeg(Create("pipeline", <<"b">>), Quiet)>>,
            <<CmdSeg(Select("pipeline", <<"a">>), Quiet)>>,
            <<CmdSeg(UndoLine, Quiet)>>>>, NewSession)

\* C37: undo of a create restores the current pointers captured at creation
\* if and only if the created entity is the current one when undo runs;
\* otherwise it deletes the entity and leaves currentPipeline and
\* currentTask alone.  Checked in every reachable state, and after one more
\* create followed by a select; after two pipeline creates and a select of
\* the first, undo deletes the second and the first stays current.
C37_UndoRestoresPointers ==
    /\ CreateUndone(sess)
    /\ \A c1 \in PipelineCreateCmds \cup TaskCreateCmds :
          \A r1 \in {Try(c1, Quiet)} :
              r1.err = NoErr =>
                  \A c2 \in PipelineSelectCmds \cup TaskSelectCmds :
                      CreateUndone(Step(c2, r1.s, r1.result, << >>, Quiet).s)
    /\ DOMAIN SelectThenUndo.pipelines = {<<"a">>}
    /\ SelectThenUndo.currentPipeline = SelectThenUndo.pipelines[<<"a">>]
    /\ SelectThenUndo.currentTask = Nil

\* Two tasks of which the one created first was selected again while the
\* creation of the other is on top of the undo stack: undo deletes the
\* other and the selected task stays current
C37_Witness ==
    /\ Cardinality(DOMAIN sess.tasks) = 2
    /\ sess.PastActions # << >>
    /\ sess.PastActions[Len(sess.PastActions)].kind = "task create"
    /\ sess.currentTask # Nil
    /\ sess.tobj[sess.currentTask].Name # sess.PastActions[Len(sess.PastActions)].name
    /\ Try(UndoLine, Quiet).s.currentTask = sess.currentTask
    /\ Cardinality(DOMAIN Try(UndoLine, Quiet).s.tasks) = 1

\* The edges of the session that reference task name n: pairs of a pipeline
\* and a position in its edge list
EdgesTo(s, n) ==
    UNION {{<<p, i>> : i \in {j \in 1..Len(s.pobj[p].Tasks) :
                                  \/ s.pobj[p].Tasks[j].Name = n
                                  \/ s.pobj[p].Tasks[j].TaskRef = n}} :
           p \in DOMAIN s.pobj}

\* C38: in every reachable state each task name is referenced by at most
\* one edge over all pipelines, and a task create that succeeds with a
\* current pipeline finds no edge of that name there: it never takes the
\* branch that updates the conditions of an existing edge.
C38_OneEdgePerTask ==
    /\ \A n \in TaskNames : Cardinality(EdgesTo(sess, n)) <= 1
    /\ sess.currentPipeline # Nil =>
          \A n \in TaskNames \ DOMAIN sess.tasks :
              FindPipelineTask(sess.pobj[sess.currentPipeline].Tasks, n) = -1
====
